---- MODULE Spec2Model ----
(***************************************************************************)
(* State-machine model of the stock-monitor extension's background script. *)
(* The repository holds several revisions of the script.  Three of them    *)
(* are modelled, each with its own next-state relation over one set of     *)
(* variables (the revisions share the names of their globals):             *)
(*   - the safety-governed revision   src/unnamed/part_001:1701-2707       *)
(*     (circuit breaker, tab limit, emergencyStop)                         *)
(*       its scheduler                                        SpecSched    *)
(*       its purchase path                                    SpecCart     *)
(*       both together                                        Spec         *)
(*   - the check-queue revision       src/unnamed/part_001:238-442,        *)
(*     774-1042 (checkQueue, activeChecks, attemptCheckout)   SpecQueue    *)
(*   - the last revision of           src/background.js:1600-2992          *)
(*     (user add-to-cart, purchase counter)                   SpecBg       *)
(* One action is one run-to-completion step of the JavaScript event loop:  *)
(* a handler, or the continuation of an async function after an await.     *)
(***************************************************************************)
EXTENDS Integers, Sequences, FiniteSets, Bags, TLC

(***************************************************************************)
(* Bounds of the model                                                     *)
(***************************************************************************)
MaxProducts == 3     \* longest monitoredProducts list
MaxCycles == 1       \* check cycles (checkAllProductsStock calls) in flight
MaxJobs == 4         \* processCheckQueue calls in flight (queue revision)
MaxCarts == 2        \* user addToCart requests in flight
MaxTicks == 1        \* clock advances
MaxMessages == 2     \* control messages of the UI handled in one run
MaxCartRequests == 3 \* addToCart messages of the UI handled in one run
MaxTabIds == 3       \* tabs created in one run
MaxCheckTabs == 1    \* of these, tabs opened by the stock checks' browser fallback
MaxLimitInput == 2   \* largest purchase limit the UI sends
MaxControls == 1     \* controls of a checkout page
MaxStored == 5       \* longest product list found in storage at start
MaxRequests == 4     \* requests given to RequestQueue.enqueue in one run

(***************************************************************************)
(* Program constants                                                       *)
(***************************************************************************)
MAX_FAILURES == 3
MIN_CHECK_INTERVAL_MS == 30000
FAILURE_COOLDOWN_MS == 14400000
MAX_TABS_PER_SESSION == 10
MAX_CONCURRENT_CHECKS == 3
DefaultPurchaseLimit == 3
TabSafetyTimeoutMs == 30000
MinIntervalSeconds == 30
DefaultCheckInterval == 60
q_DefaultCheckInterval == 30
bg_DefaultCheckInterval == 30

(***************************************************************************)
(* Inputs: the product descriptors the UI sends with addProduct/addToCart. *)
(* addToCartUrl is TRUE when the descriptor carries a non-empty direct     *)
(* add-to-cart URL.                                                        *)
(***************************************************************************)
TargetUrls == {"target.com/A-1", "target.com/A-2", "target.com/A-3"}
BestBuyUrls == {"bestbuy.com/1", "bestbuy.com/2"}
Urls == TargetUrls \cup BestBuyUrls

isTarget(url) == url \in TargetUrls
isBestBuy(url) == url \in BestBuyUrls

ProductInputs ==
  { [url |-> "target.com/A-1", autoCheckout |-> TRUE,  addToCartUrl |-> TRUE],
    [url |-> "target.com/A-2", autoCheckout |-> TRUE,  addToCartUrl |-> FALSE],
    [url |-> "target.com/A-3", autoCheckout |-> FALSE, addToCartUrl |-> FALSE],
    [url |-> "bestbuy.com/1",  autoCheckout |-> TRUE,  addToCartUrl |-> FALSE] }

\* the product lists found in chrome.storage.sync when the script starts
StoredProductLists ==
  { << [url |-> "target.com/A-1", autoCheckout |-> TRUE,  addToCartUrl |-> TRUE] >>,
    << [url |-> "target.com/A-1", autoCheckout |-> TRUE,  addToCartUrl |-> TRUE],
       [url |-> "target.com/A-2", autoCheckout |-> TRUE,  addToCartUrl |-> FALSE],
       [url |-> "target.com/A-3", autoCheckout |-> FALSE, addToCartUrl |-> FALSE] >> }

\* the stored lists of the purchase-path specifications
CartProductLists ==
  { << [url |-> "target.com/A-1", autoCheckout |-> TRUE,  addToCartUrl |-> TRUE],
       [url |-> "bestbuy.com/1",  autoCheckout |-> TRUE,  addToCartUrl |-> FALSE] >> }

\* the stored lists of the check-queue specification
QueueProductLists ==
  { << [url |-> "target.com/A-1", autoCheckout |-> TRUE,  addToCartUrl |-> TRUE],
       [url |-> "target.com/A-3", autoCheckout |-> FALSE, addToCartUrl |-> FALSE] >> }

LimitInputs == 1..MaxLimitInput
TimeSteps == {MIN_CHECK_INTERVAL_MS, FAILURE_COOLDOWN_MS}

VARIABLES
  \* globals of the background script
  monitoredProducts,       \* sequence of product descriptors
  isMonitoring,
  checkoutInProgress,
  stockStatus,             \* function: url (of the recorded ones) -> StockRecord
  consecutiveFailures,
  lastCheckTime,
  activeTabs,              \* ids of the tabs the script tracks
  tabsCreatedThisSession,
  activeChecks,            \* check-queue revision
  checkQueue,              \* check-queue revision
  tabOperationInProgress,  \* check-queue revision
  \* chrome.* state
  alarm,                   \* base period (s) of the 'checkStock' alarm, 0: no alarm
  alarmListeners,          \* listeners registered on chrome.alarms.onAlarm
  notificationsGranted,    \* chrome.notifications is available to the build
  purchaseCount,           \* chrome.storage.sync, 0 when unset
  purchaseLimit,           \* chrome.storage.sync
  checkInterval,           \* chrome.storage.sync
  openTabs,                \* ids of the tabs open in the browser
  nextTabId,
  cartListeners,           \* registered tabs.onUpdated cartListener closures
  \* time and timers
  now,
  ticks,
  breakerTimers,           \* due times of the pending breaker-reset timeouts
  tabTimers,               \* pending createSafeTab safety timeouts
  \* suspended async functions
  cycles,                  \* checkAllProductsStock calls, by slot
  addChecks,               \* addProduct's immediate checks in flight
  carts,                   \* addToCart message handlers, by slot
  jobs,                    \* bag of the processCheckQueue calls in flight (queue revision)
  \* the checkout page and the checkout script injected into it
  page,                    \* the visible, enabled controls of the document
  checkout,                \* the perform...Checkout call: retailer, position, result
  clicked,                 \* observation: the controls the script has clicked
  \* the RequestQueue object targetRequestQueue (background.js)
  rqQueue,                 \* this.queue: the requests waiting, by number
  rqProcessing,            \* this.processing
  rqChains,                \* bag of the processQueue calls in flight
  rqNext,                  \* observation: number of the next request enqueued
  rqSent,                  \* observation: the requests fetched, in order
  rqSettles,               \* observation: the settlements of enqueue's promises
  \* observation
  msgs,                    \* UI messages handled so far, by kind
  trippedAt,               \* when consecutiveFailures last reached MAX_FAILURES, 0: never
  emergencyStopped         \* emergencyStop handled and no startMonitoring since

vars == << monitoredProducts, isMonitoring, checkoutInProgress, stockStatus,
           consecutiveFailures, lastCheckTime, activeTabs, tabsCreatedThisSession,
           activeChecks, checkQueue, tabOperationInProgress,
           alarm, alarmListeners, notificationsGranted, purchaseCount, purchaseLimit, checkInterval,
           openTabs, nextTabId, cartListeners,
           now, ticks, breakerTimers, tabTimers,
           cycles, addChecks, carts, jobs,
           page, checkout, clicked,
           rqQueue, rqProcessing, rqChains, rqNext, rqSent, rqSettles,
           msgs, trippedAt, emergencyStopped >>

\* groups for UNCHANGED
queueVars == << activeChecks, checkQueue, tabOperationInProgress, jobs >>
storeVars == << purchaseCount, purchaseLimit >>
tabVars == << activeTabs, tabsCreatedThisSession, openTabs, nextTabId, tabTimers >>
clockVars == << now, ticks >>
breakerVars == << consecutiveFailures, breakerTimers, trippedAt >>
scriptVars == << page, checkout, clicked >>
rqVars == << rqQueue, rqProcessing, rqChains, rqNext, rqSent, rqSettles >>

(***************************************************************************)
(* Helpers                                                                 *)
(***************************************************************************)
\* JavaScript's `x || d` on a stored number: 0 and unset are falsy
OrDefault(x, d) == IF x = 0 THEN d ELSE x

Min(S) == CHOOSE x \in S : \A y \in S : x <= y

\* a suspended checkTargetStock call: pc "fetch" (awaiting fetch),
\* "fetchRejected" (the fetch promise has rejected, the catch is about to
\* run), "tabCreate" (awaiting chrome.tabs.create in createSafeTab), "tabWait"
\* (the 4 s wait and executeScript); html is hasAddToCartButton
NoCheck == [pc |-> "none", tab |-> 0, html |-> FALSE]
Fetching == [pc |-> "fetch", tab |-> 0, html |-> FALSE]
FetchRejected == [pc |-> "fetchRejected", tab |-> 0, html |-> FALSE]

IdleCycle == [pc |-> "idle", list |-> << >>, live |-> FALSE, i |-> 0, chk |-> NoCheck]
FreeCycles == {c \in 1..MaxCycles : cycles[c].pc = "idle"}

\* an addToCart message handler: pc "get" (awaiting chrome.storage.sync.get),
\* "directTab" / "autoTab" (awaiting chrome.tabs.create), "autoWait" (the 3 s
\* wait), "script" (awaiting executeScript); count is the purchaseCount it
\* read; response is what the slot's last handler sent back
IdleCart == [pc |-> "idle", url |-> "", direct |-> FALSE, count |-> 0, tab |-> 0,
             response |-> "none"]
FreeCarts == {r \in 1..MaxCarts : carts[r].pc = "idle"}

\* a processCheckQueue call past its shift (queue revision): pc "delay" (its
\* stagger delay), "lockWait" / "tab" (createAndUseTab of the stock check),
\* "limitGet" / "cart" / "checkoutScript" (attemptCheckout); count is the
\* purchaseCount attemptCheckout read; busy records checkoutInProgress as it
\* was when the check completed
NoProduct == [url |-> "", autoCheckout |-> FALSE, addToCartUrl |-> FALSE]
NewJob(product) == [pc |-> "delay", product |-> product, count |-> 0, busy |-> FALSE]

\* the array a cycle's for-of loop iterates: getProductsToCheck returns the
\* monitoredProducts array itself when it has 3 or fewer entries
CycleList(c) == IF cycles[c].live THEN monitoredProducts ELSE cycles[c].list

\* removeProduct assigns a new array to monitoredProducts: the loops that
\* iterate the old array keep it
Detach(cyc) ==
  [c \in 1..MaxCycles |->
     IF cyc[c].live THEN [cyc[c] EXCEPT !.live = FALSE, !.list = monitoredProducts]
     ELSE cyc[c]]

\* a StockRecord as the cycle writes it; lastInStock 0 stands for null.  The
\* lastChecked field, which the script only ever writes, is left out.
PreviousLastInStock(url) ==
  IF url \in DOMAIN stockStatus THEN stockStatus[url].lastInStock ELSE 0

CycleRecord(product, inStock) ==
  [inStock |-> inStock, product |-> product,
   lastInStock |-> IF inStock THEN now ELSE PreviousLastInStock(product.url)]

PutRecord(url, rec) ==
  [u \in DOMAIN stockStatus \cup {url} |-> IF u = url THEN rec ELSE stockStatus[u]]

DeleteRecord(url) ==
  [u \in DOMAIN stockStatus \ {url} |-> stockStatus[u]]

\* no checkout script is injected
NoCheckout == [retailer |-> "", pc |-> "none", result |-> "none"]

\* previousStatus absent or not in stock
WasNotInStock(url) ==
  url \notin DOMAIN stockStatus \/ ~stockStatus[url].inStock

(***************************************************************************)
(* Initial state: the script loaded and onInstalled handled, with the       *)
(* product list saved earlier (part_001:1701-1741).  notificationsGranted  *)
(* is fixed by the build's manifest, which is not part of the sources.     *)
(***************************************************************************)
InitGlobals(lists, interval) ==
  /\ monitoredProducts \in lists
  /\ isMonitoring = FALSE
  /\ checkoutInProgress = FALSE
  /\ stockStatus = << >>
  /\ consecutiveFailures = 0
  /\ lastCheckTime = 0
  /\ activeTabs = {}
  /\ tabsCreatedThisSession = 0
  /\ activeChecks = 0
  /\ checkQueue = << >>
  /\ tabOperationInProgress = FALSE
  /\ alarm = interval
  /\ alarmListeners = 1
  /\ notificationsGranted \in BOOLEAN
  /\ purchaseCount = 0
  /\ purchaseLimit = DefaultPurchaseLimit
  /\ checkInterval = 0
  /\ openTabs = {}
  /\ nextTabId = 1
  /\ cartListeners = {}
  /\ now = MIN_CHECK_INTERVAL_MS
  /\ ticks = 0
  /\ breakerTimers = {}
  /\ tabTimers = {}
  /\ cycles = [c \in 1..MaxCycles |-> IdleCycle]
  /\ addChecks = {}
  /\ carts = [r \in 1..MaxCarts |-> IdleCart]
  /\ jobs = EmptyBag
  /\ msgs = [control |-> 0, cart |-> 0, unanswered |-> 0]
  /\ trippedAt = 0
  /\ emergencyStopped = FALSE

\* the RequestQueue as its constructor leaves it
InitRequestQueue ==
  /\ rqQueue = << >>
  /\ rqProcessing = FALSE
  /\ rqChains = EmptyBag
  /\ rqNext = 1
  /\ rqSent = << >>
  /\ rqSettles = << >>

\* ... with no checkout script running
InitWith(lists, interval) ==
  /\ InitGlobals(lists, interval)
  /\ page = {}
  /\ checkout = NoCheckout
  /\ clicked = {}
  /\ InitRequestQueue

Init == InitWith(StoredProductLists, DefaultCheckInterval)

(***************************************************************************)
(* Safety-governed revision: tabs (part_001:1752-1776, 1923-1959)          *)
(***************************************************************************)
\* closeAllMonitoringTabs: removes the tracked tabs and every target.com tab
\* (all tabs of this model are Target tabs)
closeAllMonitoringTabs ==
  /\ activeTabs' = {}
  /\ openTabs' = {}

\* the limit test lets a call through when the counter is at the limit
SafeTabAllowed_atLimit(monitoring, inCheckout) ==
  /\ monitoring \/ inCheckout
  /\ tabsCreatedThisSession <= MAX_TABS_PER_SESSION

\* createSafeTab's two guards, on the values of the flags at the call
SafeTabAllowed(monitoring, inCheckout) ==
  /\ monitoring \/ inCheckout
  /\ tabsCreatedThisSession < MAX_TABS_PER_SESSION

\* createSafeTab up to `await chrome.tabs.create`: the tab exists from here on
createSafeTab_call ==
  /\ nextTabId <= MaxTabIds
  /\ tabsCreatedThisSession' = tabsCreatedThisSession + 1
  /\ openTabs' = openTabs \cup {nextTabId}
  /\ nextTabId' = nextTabId + 1
  /\ UNCHANGED << activeTabs, tabTimers >>

\* createSafeTab after the await: track the tab, arm the 30 s safety timeout
createSafeTab_resume(tab) ==
  /\ activeTabs' = activeTabs \cup {tab}
  /\ tabTimers' = tabTimers \cup {[tab |-> tab, due |-> now + TabSafetyTimeoutMs]}
  /\ UNCHANGED << tabsCreatedThisSession, openTabs, nextTabId >>

\* the safety timeout of createSafeTab fires: the tab is closed if it is still
\* open, and forgotten
tabSafetyTimeout(t) ==
  /\ t \in tabTimers
  /\ now >= t.due
  /\ tabTimers' = tabTimers \ {t}
  /\ openTabs' = openTabs \ {t.tab}
  /\ activeTabs' = activeTabs \ {t.tab}
  /\ UNCHANGED << monitoredProducts, isMonitoring, checkoutInProgress, stockStatus,
                  lastCheckTime, tabsCreatedThisSession, nextTabId, alarm, alarmListeners,
                  notificationsGranted, scriptVars, rqVars, storeVars, checkInterval, cartListeners,
                  clockVars, breakerVars, cycles, addChecks, carts, queueVars,
                  msgs, emergencyStopped >>

(***************************************************************************)
(* Safety-governed revision: the stock check (part_001:1962-2129)          *)
(***************************************************************************)
\* What one step of a suspended checkTargetStock call comes to: the call
\* returns result (checkProductStock hands it on unchanged and catches every
\* error), or it stays suspended as chk.
Returned(b) == [kind |-> "return", result |-> b, chk |-> NoCheck]
Suspended(chk) == [kind |-> "suspend", result |-> FALSE, chk |-> chk]

CheckOutcomes ==
  {Returned(b) : b \in BOOLEAN}
  \cup {Suspended(chk) : chk \in [pc : {"tabCreate", "tabWait"}, tab : 1..MaxTabIds,
                                   html : BOOLEAN]}
  \cup {Suspended(FetchRejected)}

\* One step of the suspended checkTargetStock call chk, with outcome out
checkTargetStock(chk, out) ==
  \/ \* the response is not ok, or the HTML decides: lines 1998-2020
     /\ chk.pc = "fetch"
     /\ out.kind = "return"
     /\ UNCHANGED tabVars
  \/ \* the fetch rejects (no network): line 1993
     /\ chk.pc = "fetch"
     /\ out = Suspended(FetchRejected)
     /\ UNCHANGED tabVars
  \/ \* ... and the outer catch returns false: lines 2054-2057
     /\ chk.pc = "fetchRejected"
     /\ out = Returned(FALSE)
     /\ UNCHANGED tabVars
  \/ \* uncertain HTML: browser fallback, lines 2023-2026 and 2047-2051
     /\ chk.pc = "fetch"
     /\ nextTabId <= MaxCheckTabs
     /\ \E h \in BOOLEAN :
          IF SafeTabAllowed(isMonitoring, checkoutInProgress)
          THEN /\ createSafeTab_call
               /\ out = Suspended([pc |-> "tabCreate", tab |-> nextTabId, html |-> h])
          ELSE /\ out = Returned(h)
               /\ UNCHANGED tabVars
  \/ /\ chk.pc = "tabCreate"
     /\ createSafeTab_resume(chk.tab)
     /\ out = Suspended([chk EXCEPT !.pc = "tabWait"])
  \/ \* executeScript ran: the tab is closed, lines 2032-2046 and 2053
     /\ chk.pc = "tabWait"
     /\ chk.tab \in openTabs
     /\ openTabs' = openTabs \ {chk.tab}
     /\ activeTabs' = activeTabs \ {chk.tab}
     /\ UNCHANGED << tabsCreatedThisSession, nextTabId, tabTimers >>
     /\ out.kind = "return"
  \/ \* executeScript rejects, because the tab is gone or because its page
     \* cannot be scripted (an error page): lines 2047-2051
     /\ chk.pc = "tabWait"
     /\ UNCHANGED tabVars
     /\ out = Returned(chk.html)

(***************************************************************************)
(* Safety-governed revision: the check cycle (part_001:1836-1920, 2169)    *)
(***************************************************************************)
\* Math.ceil(n * 0.5) distinct entries of the shuffled list, or the array itself
getProductsToCheck ==
  IF Len(monitoredProducts) <= 3 THEN {monitoredProducts}
  ELSE LET n == Len(monitoredProducts)
           k == (n + 1) \div 2
           picks == {f \in [1..k -> 1..n] : \A a, b \in 1..k : a # b => f[a] # f[b]}
       IN  {[j \in 1..k |-> monitoredProducts[f[j]]] : f \in picks}

\* checkAllProductsStock from its entry gate to the first await of its loop
checkAllProductsStock ==
  IF Len(monitoredProducts) = 0 \/ checkoutInProgress
  THEN UNCHANGED cycles
  ELSE /\ FreeCycles # {}
       /\ \E list \in getProductsToCheck :
            LET live == Len(monitoredProducts) <= 3 IN
            cycles' = [cycles EXCEPT ![Min(FreeCycles)] =
                         [pc |-> "delay", list |-> IF live THEN << >> ELSE list,
                          live |-> live, i |-> 1, chk |-> NoCheck]]

\* the loop after the body of iteration i: the next product's stagger delay,
\* or the broadcast that ends the cycle
AfterIteration(c) ==
  IF cycles[c].i + 1 <= Len(CycleList(c))
  THEN [cycles[c] EXCEPT !.pc = "delay", !.i = cycles[c].i + 1, !.chk = NoCheck]
  ELSE IdleCycle

\* the try block encloses the loop: an exception of one iteration ends the cycle
CheckCompleted_failureEndsCycle(c, product, inStock) ==
  LET transition == inStock /\ WasNotInStock(product.url)
      throws == transition /\ ~notificationsGranted
      failures == consecutiveFailures + 1
  IN
  /\ stockStatus' = PutRecord(product.url, CycleRecord(product, inStock))
  /\ IF throws
     THEN /\ consecutiveFailures' = failures
          /\ breakerTimers' = IF failures >= MAX_FAILURES
                              THEN breakerTimers \cup {now + FAILURE_COOLDOWN_MS}
                              ELSE breakerTimers
          /\ trippedAt' = IF failures = MAX_FAILURES THEN now ELSE trippedAt
          /\ UNCHANGED checkoutInProgress
          /\ cycles' = [cycles EXCEPT ![c] = IdleCycle]
     ELSE /\ consecutiveFailures' = 0
          /\ UNCHANGED << breakerTimers, trippedAt >>
          /\ checkoutInProgress' =
               IF transition /\ isMonitoring /\ product.autoCheckout
               THEN FALSE ELSE checkoutInProgress
          /\ cycles' = [cycles EXCEPT ![c] = AfterIteration(c)]

\* the loop body after `await checkProductStock(product)`: lines 1873-1910
CheckCompleted(c, product, inStock) ==
  LET transition == inStock /\ WasNotInStock(product.url)
      \* chrome.notifications.create throws when the API is not available
      throws == transition /\ ~notificationsGranted
      failures == consecutiveFailures + 1
  IN
  /\ stockStatus' = PutRecord(product.url, CycleRecord(product, inStock))
  /\ IF throws
     THEN /\ consecutiveFailures' = failures
          /\ breakerTimers' = IF failures >= MAX_FAILURES
                              THEN breakerTimers \cup {now + FAILURE_COOLDOWN_MS}
                              ELSE breakerTimers
          /\ trippedAt' = IF failures = MAX_FAILURES THEN now ELSE trippedAt
          /\ UNCHANGED checkoutInProgress
     ELSE /\ consecutiveFailures' = 0
          /\ UNCHANGED << breakerTimers, trippedAt >>
          \* checkoutInProgress = true; await attemptCheckout (a stub that
          \* returns false at once); checkoutInProgress = false
          /\ checkoutInProgress' =
               IF transition /\ isMonitoring /\ product.autoCheckout
               THEN FALSE ELSE checkoutInProgress
  /\ cycles' = [cycles EXCEPT ![c] = AfterIteration(c)]

cycleSuspend(c, chk) == cycles' = [cycles EXCEPT ![c].chk = chk]

cycleFrame == << monitoredProducts, isMonitoring, lastCheckTime, alarm, alarmListeners,
                 notificationsGranted, scriptVars, rqVars, storeVars, checkInterval, cartListeners,
                 clockVars, addChecks, carts, queueVars, msgs, emergencyStopped >>

\* the stagger delay of iteration i is over: lines 1861-1871
staggerDelayElapsed(c) ==
  /\ cycles[c].pc = "delay"
  /\ LET product == CycleList(c)[cycles[c].i] IN
     \/ \* Math.random() < 0.1: the product is skipped
        /\ cycles' = [cycles EXCEPT ![c] = AfterIteration(c)]
        /\ UNCHANGED << stockStatus, checkoutInProgress, breakerVars, tabVars >>
     \/ \* checkProductStock is called; checkTargetStock awaits its fetch
        /\ isTarget(product.url)
        /\ cycles' = [cycles EXCEPT ![c].pc = "check", ![c].chk = Fetching]
        /\ UNCHANGED << stockStatus, checkoutInProgress, breakerVars, tabVars >>
     \/ \* checkBestBuyStock and checkGenericStock return false at once
        /\ ~isTarget(product.url)
        /\ CheckCompleted(c, product, FALSE)
        /\ UNCHANGED tabVars
  /\ UNCHANGED cycleFrame

cycleCheckReturn(c, b) ==
  CheckCompleted(c, CycleList(c)[cycles[c].i], b)

cycleCheckSuspend(c, chk) ==
  /\ cycleSuspend(c, chk)
  /\ UNCHANGED << stockStatus, checkoutInProgress, breakerVars >>

\* a step of the stock check a cycle awaits
cycleCheckStep(c) ==
  /\ cycles[c].pc = "check"
  /\ \E out \in CheckOutcomes :
       /\ checkTargetStock(cycles[c].chk, out)
       /\ IF out.kind = "return" THEN cycleCheckReturn(c, out.result)
          ELSE cycleCheckSuspend(c, out.chk)
  /\ UNCHANGED cycleFrame

(***************************************************************************)
(* Safety-governed revision: addProduct's immediate check                  *)
(* (part_001:2336-2357)                                                    *)
(***************************************************************************)
\* the record addProduct's .then callback writes: no previous record is read
AddProductRecord(product, inStock) ==
  [inStock |-> inStock, product |-> product,
   lastInStock |-> IF inStock THEN now ELSE 0]

addCheckFrame == << monitoredProducts, isMonitoring, checkoutInProgress,
                    lastCheckTime, alarm, alarmListeners, notificationsGranted, scriptVars, rqVars, storeVars,
                    checkInterval, cartListeners, clockVars, breakerVars, cycles,
                    carts, queueVars, msgs, emergencyStopped >>

addCheckReturn(a, b) ==
  /\ stockStatus' = PutRecord(a.product.url, AddProductRecord(a.product, b))
  /\ addChecks' = addChecks \ {a}

addCheckSuspend(a, chk) ==
  /\ addChecks' = (addChecks \ {a}) \cup {[a EXCEPT !.chk = chk]}
  /\ UNCHANGED stockStatus

addCheckStep(a) ==
  /\ a \in addChecks
  /\ \E out \in CheckOutcomes :
       /\ checkTargetStock(a.chk, out)
       /\ IF out.kind = "return" THEN addCheckReturn(a, out.result)
          ELSE addCheckSuspend(a, out.chk)
  /\ UNCHANGED addCheckFrame

(***************************************************************************)
(* Safety-governed revision: alarm, timers, clock (part_001:1779-1833,     *)
(* 1905-1908)                                                              *)
(***************************************************************************)
\* setupMonitoring: clearAll, then create 'checkStock' with the base period
\* raised to the 30 s minimum (the jitter added to it is not modelled: the
\* alarm may fire at any time it exists)
setupMonitoring(intervalSeconds) ==
  /\ alarm' = IF intervalSeconds < MinIntervalSeconds THEN MinIntervalSeconds
              ELSE intervalSeconds
  \* removeListener(alarmListener), then addListener(alarmListener)
  /\ UNCHANGED alarmListeners

\* the listener without its minimum-spacing test
alarmListener_noSpacingTest ==
  /\ alarm # 0
  /\ isMonitoring
  /\ IF consecutiveFailures >= MAX_FAILURES
     THEN UNCHANGED << isMonitoring, alarm, alarmListeners, lastCheckTime, cycles >>
     ELSE IF tabsCreatedThisSession >= MAX_TABS_PER_SESSION
     THEN /\ isMonitoring' = FALSE
          /\ alarm' = 0
          /\ UNCHANGED alarmListeners
          /\ UNCHANGED << lastCheckTime, cycles >>
     ELSE /\ lastCheckTime' = now
          /\ checkAllProductsStock
          /\ UNCHANGED << isMonitoring, alarm, alarmListeners >>
  /\ UNCHANGED << monitoredProducts, checkoutInProgress, stockStatus, tabVars,
                  notificationsGranted, scriptVars, rqVars, storeVars, checkInterval, cartListeners,
                  clockVars, breakerVars, addChecks, carts, queueVars, msgs,
                  emergencyStopped >>

\* the 'checkStock' alarm fires: alarmListener
alarmListener ==
  /\ alarm # 0
  /\ isMonitoring
  /\ IF consecutiveFailures >= MAX_FAILURES
     THEN UNCHANGED << isMonitoring, alarm, alarmListeners, lastCheckTime, cycles >>
     ELSE IF tabsCreatedThisSession >= MAX_TABS_PER_SESSION
     THEN /\ isMonitoring' = FALSE
          /\ alarm' = 0
          /\ UNCHANGED alarmListeners
          /\ UNCHANGED << lastCheckTime, cycles >>
     ELSE IF now - lastCheckTime < MIN_CHECK_INTERVAL_MS
     THEN UNCHANGED << isMonitoring, alarm, alarmListeners, lastCheckTime, cycles >>
     ELSE /\ lastCheckTime' = now
          /\ checkAllProductsStock
          /\ UNCHANGED << isMonitoring, alarm, alarmListeners >>
  /\ UNCHANGED << monitoredProducts, checkoutInProgress, stockStatus, tabVars,
                  notificationsGranted, scriptVars, rqVars, storeVars, checkInterval, cartListeners,
                  clockVars, breakerVars, addChecks, carts, queueVars, msgs,
                  emergencyStopped >>

\* the timeout fires and leaves the counter alone
breakerResetTimer_keepsCounter(due) ==
  /\ due \in breakerTimers
  /\ now >= due
  /\ UNCHANGED consecutiveFailures
  /\ breakerTimers' = breakerTimers \ {due}
  /\ UNCHANGED << monitoredProducts, isMonitoring, checkoutInProgress, stockStatus,
                  lastCheckTime, tabVars, alarm, alarmListeners, notificationsGranted, scriptVars, rqVars, storeVars,
                  checkInterval, cartListeners, clockVars, trippedAt, cycles,
                  addChecks, carts, queueVars, msgs, emergencyStopped >>

\* the timeout armed when the breaker tripped fires
breakerResetTimer(due) ==
  /\ due \in breakerTimers
  /\ now >= due
  /\ consecutiveFailures' = 0
  /\ breakerTimers' = breakerTimers \ {due}
  /\ UNCHANGED << monitoredProducts, isMonitoring, checkoutInProgress, stockStatus,
                  lastCheckTime, tabVars, alarm, alarmListeners, notificationsGranted, scriptVars, rqVars, storeVars,
                  checkInterval, cartListeners, clockVars, trippedAt, cycles,
                  addChecks, carts, queueVars, msgs, emergencyStopped >>

\* time passes
Tick ==
  /\ ticks < MaxTicks
  /\ ticks' = ticks + 1
  /\ \E d \in TimeSteps : now' = now + d
  /\ UNCHANGED << monitoredProducts, isMonitoring, checkoutInProgress, stockStatus,
                  lastCheckTime, tabVars, alarm, alarmListeners, notificationsGranted, scriptVars, rqVars, storeVars,
                  checkInterval, cartListeners, breakerVars, cycles, addChecks,
                  carts, queueVars, msgs, emergencyStopped >>

(***************************************************************************)
(* Safety-governed revision: message handlers of the scheduler             *)
(* (part_001:2264-2399, 2455-2463)                                         *)
(***************************************************************************)
\* a control message of the UI is delivered
Message ==
  /\ msgs.control < MaxMessages
  /\ msgs' = [msgs EXCEPT !.control = @ + 1]

\* an addToCart message of the UI is delivered
CartMessage ==
  /\ msgs.cart < MaxCartRequests
  /\ msgs' = [msgs EXCEPT !.cart = @ + 1]

onMessage_startMonitoring ==
  /\ Message
  /\ isMonitoring' = TRUE
  /\ tabsCreatedThisSession' = 0
  /\ consecutiveFailures' = 0
  /\ checkAllProductsStock
  /\ emergencyStopped' = FALSE
  /\ UNCHANGED << monitoredProducts, checkoutInProgress, stockStatus, lastCheckTime,
                  activeTabs, openTabs, nextTabId, tabTimers, alarm, alarmListeners,
                  notificationsGranted, scriptVars, rqVars, storeVars, checkInterval, cartListeners,
                  clockVars, breakerTimers, trippedAt, addChecks, carts, queueVars >>

onMessage_stopMonitoring ==
  /\ Message
  /\ isMonitoring' = FALSE
  /\ alarm' = 0
  /\ UNCHANGED alarmListeners
  /\ closeAllMonitoringTabs
  /\ UNCHANGED << monitoredProducts, checkoutInProgress, stockStatus, lastCheckTime,
                  tabsCreatedThisSession, nextTabId, tabTimers, notificationsGranted, scriptVars, rqVars,
                  storeVars, checkInterval, cartListeners, clockVars, breakerVars,
                  cycles, addChecks, carts, queueVars, emergencyStopped >>

onMessage_emergencyStop ==
  /\ Message
  /\ isMonitoring' = FALSE
  /\ checkoutInProgress' = FALSE
  /\ alarm' = 0
  /\ UNCHANGED alarmListeners
  /\ closeAllMonitoringTabs
  /\ emergencyStopped' = TRUE
  /\ UNCHANGED << monitoredProducts, stockStatus, lastCheckTime,
                  tabsCreatedThisSession, nextTabId, tabTimers, notificationsGranted, scriptVars, rqVars,
                  storeVars, checkInterval, cartListeners, clockVars, breakerVars,
                  cycles, addChecks, carts, queueVars >>

onMessage_forceCheck ==
  /\ Message
  /\ IF isMonitoring THEN checkAllProductsStock ELSE UNCHANGED cycles
  /\ UNCHANGED << monitoredProducts, isMonitoring, checkoutInProgress, stockStatus,
                  lastCheckTime, tabVars, alarm, alarmListeners, notificationsGranted, scriptVars, rqVars, storeVars,
                  checkInterval, cartListeners, clockVars, breakerVars, addChecks,
                  carts, queueVars, emergencyStopped >>

onMessage_addProduct(product) ==
  /\ Message
  /\ Len(monitoredProducts) < MaxProducts
  /\ monitoredProducts' = Append(monitoredProducts, product)
  /\ IF ~isMonitoring
     THEN UNCHANGED << stockStatus, addChecks >>
     ELSE IF isTarget(product.url)
     THEN /\ addChecks' = addChecks \cup {[product |-> product, chk |-> Fetching]}
          /\ UNCHANGED stockStatus
     ELSE \* the stub check resolves to false at once
          /\ stockStatus' = PutRecord(product.url, AddProductRecord(product, FALSE))
          /\ UNCHANGED addChecks
  /\ UNCHANGED << isMonitoring, checkoutInProgress, lastCheckTime, tabVars, alarm, alarmListeners,
                  notificationsGranted, scriptVars, rqVars, storeVars, checkInterval, cartListeners,
                  clockVars, breakerVars, cycles, carts, queueVars, emergencyStopped >>

onMessage_removeProduct(url) ==
  /\ Message
  /\ \E i \in 1..Len(monitoredProducts) : monitoredProducts[i].url = url
  /\ monitoredProducts' = SelectSeq(monitoredProducts, LAMBDA p : p.url # url)
  /\ cycles' = Detach(cycles)
  /\ stockStatus' = DeleteRecord(url)
  /\ UNCHANGED << isMonitoring, checkoutInProgress, lastCheckTime, tabVars, alarm, alarmListeners,
                  notificationsGranted, scriptVars, rqVars, storeVars, checkInterval, cartListeners,
                  clockVars, breakerVars, addChecks, carts, queueVars,
                  emergencyStopped >>

\* the seconds the UI sends with updateCheckInterval
IntervalInputs == {10, 60}

onMessage_updateCheckInterval(seconds) ==
  /\ Message
  /\ LET clamped == IF seconds < MinIntervalSeconds THEN MinIntervalSeconds ELSE seconds
     IN  /\ setupMonitoring(clamped)
         /\ checkInterval' = clamped
  /\ UNCHANGED << monitoredProducts, isMonitoring, checkoutInProgress, stockStatus,
                  lastCheckTime, tabVars, notificationsGranted, scriptVars, rqVars, storeVars,
                  cartListeners, clockVars, breakerVars, cycles, addChecks, carts,
                  queueVars, emergencyStopped >>

SchedulerNext ==
  \/ onMessage_startMonitoring
  \/ onMessage_stopMonitoring
  \/ onMessage_emergencyStop
  \/ onMessage_forceCheck
  \/ \E product \in ProductInputs : onMessage_addProduct(product)
  \/ \E url \in Urls : onMessage_removeProduct(url)
  \/ \E seconds \in IntervalInputs : onMessage_updateCheckInterval(seconds)
  \/ alarmListener
  \/ \E c \in 1..MaxCycles : staggerDelayElapsed(c)
  \/ \E c \in 1..MaxCycles : cycleCheckStep(c)
  \/ \E a \in addChecks : addCheckStep(a)
  \/ \E due \in breakerTimers : breakerResetTimer(due)
  \/ \E t \in tabTimers : tabSafetyTimeout(t)
  \/ Tick

SpecSched == Init /\ [][SchedulerNext]_vars

(***************************************************************************)
(* Properties of the scheduler, checked under SpecSched                    *)
(***************************************************************************)
\* a cycle calls checkProductStock for a Target product: the fetch is issued
CheckStarted ==
  \E c \in 1..MaxCycles : cycles[c].pc # "check" /\ cycles'[c].pc = "check"

\* C6: for every product, lastInStock of its StockRecord never decreases and
\* is never set back to null (0) by a write to the record, whether a cycle's
\* check or addProduct's immediate check makes the write.
C6_LastInStockNeverDecreases ==
  [][\A url \in DOMAIN stockStatus \cap DOMAIN stockStatus' :
       stockStatus'[url].lastInStock >= stockStatus[url].lastInStock]_vars

\* C8: once consecutiveFailures reached MAX_FAILURES at time trippedAt, and
\* while it still stands at the threshold, no cycle starts a stock check
\* before trippedAt + FAILURE_COOLDOWN_MS.
C8_NoCheckDuringCooldown ==
  [][(/\ trippedAt # 0
      /\ consecutiveFailures >= MAX_FAILURES
      /\ now < trippedAt + FAILURE_COOLDOWN_MS) => ~CheckStarted]_vars

\* C9: from the return of the emergencyStop handler until startMonitoring is
\* received, no check cycle issues a stock check.
C9_NoCheckAfterEmergencyStop ==
  [][emergencyStopped => ~(\E c \in 1..MaxCycles :
                             cycles[c].pc = "delay" /\ cycles'[c].pc = "check")]_vars

\* C15: while monitoring is disabled by stopMonitoring (handled, and no
\* startMonitoring since), the 'checkStock' alarm starts no cycle and the
\* cycle that is running starts no stock check for a further product.
C15_NoNewCheckAfterStopMonitoring ==
  [][(~isMonitoring /\ ~emergencyStopped) => ~CheckStarted]_vars

\* a cycle of checkAllProductsStock starts
CycleStarted ==
  \E c \in 1..MaxCycles : cycles[c].pc = "idle" /\ cycles'[c].pc # "idle"

\* a forceCheck message is handled: the one control message that changes no
\* global but the cycles it may start
ForceCheckHandled ==
  /\ msgs'.control = msgs.control + 1
  /\ UNCHANGED << monitoredProducts, isMonitoring, checkoutInProgress, stockStatus,
                  lastCheckTime, tabVars, alarm, alarmListeners, storeVars, checkInterval,
                  breakerVars, addChecks, emergencyStopped >>

\* C18: a forceCheck handled while the breaker is open, monitoring is off or
\* a checkout is in progress starts no check cycle
C18_ForceCheckRejectedStartsNothing ==
  [][(/\ ForceCheckHandled
      /\ \/ consecutiveFailures >= MAX_FAILURES
         \/ ~isMonitoring
         \/ checkoutInProgress)
     => ~CycleStarted]_vars

\* C19: monitoredProducts holds at most one entry per URL
C19_AtMostOneEntryPerUrl ==
  \A i, j \in 1..Len(monitoredProducts) :
    monitoredProducts[i].url = monitoredProducts[j].url => i = j

\* C20: stockStatus holds a record only for a URL of monitoredProducts (the
\* records are written for monitored products only, so a record of another
\* URL is the record of a product removed and not added again)
C20_NoRecordForRemovedProduct ==
  \A url \in DOMAIN stockStatus :
    \E i \in 1..Len(monitoredProducts) : monitoredProducts[i].url = url

\* the stock check of cycle c ends in this step, after its fetch was rejected
RejectedCheckEnds(c) ==
  /\ cycles[c].pc = "check"
  /\ cycles[c].chk = FetchRejected
  /\ cycles'[c].chk # FetchRejected

\* C22: a check that threw during a cycle adds exactly 1 to consecutiveFailures
C22_RejectedCheckCountsAsFailure ==
  [][\A c \in 1..MaxCycles :
       RejectedCheckEnds(c) => consecutiveFailures' = consecutiveFailures + 1]_vars

\* C23: a check that threw leaves inStock of the product's record as it was:
\* a product recorded in stock is still recorded in stock after it
C23_RejectedCheckKeepsInStock ==
  [][\A c \in 1..MaxCycles :
       RejectedCheckEnds(c) =>
         LET url == CycleList(c)[cycles[c].i].url IN
         (url \in DOMAIN stockStatus /\ stockStatus[url].inStock)
           => (url \in DOMAIN stockStatus' /\ stockStatus'[url].inStock)]_vars

\* notifyStockAvailable is called for url in this step: a cycle's check of
\* the product ends in stock over a record absent or not in stock
NotifyCalled(url) ==
  \E c \in 1..MaxCycles :
    /\ cycles[c].pc = "check"
    /\ cycles'[c].chk = NoCheck
    /\ CycleList(c)[cycles[c].i].url = url
    /\ WasNotInStock(url)
    /\ url \in DOMAIN stockStatus'
    /\ stockStatus'[url].inStock

\* C24: every check that records a product in stock over a record absent or
\* not in stock calls notifyStockAvailable, whether a cycle or addProduct's
\* immediate check made it
C24_NotifiedAtEveryTransition ==
  [][\A url \in Urls :
       (/\ WasNotInStock(url)
        /\ url \in DOMAIN stockStatus'
        /\ stockStatus'[url].inStock) => NotifyCalled(url)]_vars

\* C25: a cycle ends (with its broadcast) only after the last product of its
\* list, also when the iteration that ends in this step failed: a failed
\* iteration is followed by the next product's delay
C25_FailureDoesNotAbortCycle ==
  [][\A c \in 1..MaxCycles :
       /\ (cycles[c].pc # "idle" /\ cycles'[c].pc = "idle")
            => cycles[c].i = Len(CycleList(c))
       /\ (/\ cycles[c].pc = "check"
           /\ cycles'[c].chk = NoCheck
           /\ consecutiveFailures' = consecutiveFailures + 1
           /\ cycles[c].i < Len(CycleList(c)))
            => (cycles'[c].pc = "delay" /\ cycles'[c].i = cycles[c].i + 1)]_vars

\* the one cycle started so far goes on after its first iteration failed
C25_Witness_CycleContinuesAfterFailure ==
  \E c \in 1..MaxCycles :
    /\ msgs.control = 1
    /\ lastCheckTime = 0
    /\ isMonitoring
    /\ cycles[c].pc = "delay"
    /\ cycles[c].i = 2
    /\ consecutiveFailures = 1

\* C26: when the stock check of a cycle that opened a tab ends, the tab is
\* closed and its id is not in activeTabs
C26_CheckTabClosedWhenCheckEnds ==
  [][\A c \in 1..MaxCycles :
       (/\ cycles[c].pc = "check"
        /\ cycles[c].chk.pc = "tabWait"
        /\ cycles'[c].chk = NoCheck)
       => /\ cycles[c].chk.tab \notin openTabs'
          /\ cycles[c].chk.tab \notin activeTabs']_vars

\* the cycles whose checkProductStock call is in flight, and its product's URL
CheckingCycles == {c \in 1..MaxCycles : cycles[c].pc = "check"}
CheckedUrl(c) == CycleList(c)[cycles[c].i].url

\* C28: no two stock checks of one product URL are in flight together,
\* whether cycles or addProduct's immediate check made them
C28_OneCheckPerProductInFlight ==
  /\ \A c, d \in CheckingCycles : CheckedUrl(c) = CheckedUrl(d) => c = d
  /\ \A c \in CheckingCycles : \A a \in addChecks : a.product.url # CheckedUrl(c)
  /\ \A a, b \in addChecks : a.product.url = b.product.url => a = b

\* C30: while the breaker is open a reset timeout is pending that is due
\* within FAILURE_COOLDOWN_MS, and the timeout that fires sets
\* consecutiveFailures to 0; no request of the user is needed
C30_BreakerResetsAfterCooldown ==
  [][/\ consecutiveFailures' >= MAX_FAILURES
          => \E due \in breakerTimers' : due <= now' + FAILURE_COOLDOWN_MS
     /\ (breakerTimers' # breakerTimers /\ breakerTimers' \subseteq breakerTimers)
          => consecutiveFailures' = 0]_vars

\* the breaker opened, the cooldown passed, the timeout reset the counter, and
\* the alarm that fired afterwards started a cycle
C30_Witness_CycleAfterReset ==
  \E c \in 1..MaxCycles :
    /\ trippedAt # 0
    /\ consecutiveFailures = 0
    /\ breakerTimers = {}
    /\ msgs.control = 1
    /\ lastCheckTime >= trippedAt + FAILURE_COOLDOWN_MS
    /\ cycles[c].pc = "delay"

(***************************************************************************)
(* The selection of a cycle: the script starts with a stored list of up to *)
(* MaxStored products, and cycles run over it                              *)
(***************************************************************************)
LongProductList ==
  << [url |-> "target.com/A-1", autoCheckout |-> FALSE, addToCartUrl |-> FALSE],
     [url |-> "target.com/A-2", autoCheckout |-> FALSE, addToCartUrl |-> FALSE],
     [url |-> "bestbuy.com/1",  autoCheckout |-> FALSE, addToCartUrl |-> FALSE],
     [url |-> "target.com/A-3", autoCheckout |-> FALSE, addToCartUrl |-> FALSE],
     [url |-> "bestbuy.com/2",  autoCheckout |-> FALSE, addToCartUrl |-> FALSE] >>

SelectionProductLists ==
  {SubSeq(LongProductList, 1, n) : n \in (1..MaxStored) \cap (1..Len(LongProductList))}

InitSelection == InitWith(SelectionProductLists, DefaultCheckInterval)

SelectionNext ==
  \/ onMessage_startMonitoring
  \/ onMessage_forceCheck
  \/ \E c \in 1..MaxCycles : staggerDelayElapsed(c)
  \/ \E c \in 1..MaxCycles : cycleCheckStep(c)

SpecSelection == InitSelection /\ [][SelectionNext]_vars

\* Math.ceil(0.7 * n)
CeilSeventyPercent(n) == (7 * n + 9) \div 10

\* C21: the list a cycle iterates is monitoredProducts when that has 3 or
\* fewer entries, and otherwise ceil(0.7 * n) entries of it, none twice; the
\* cycle never checks more products than the list has
C21_SelectionSize ==
  \A c \in 1..MaxCycles :
    cycles[c].pc # "idle" =>
      LET n == Len(monitoredProducts)
          list == CycleList(c)
      IN  /\ n <= 3 => list = monitoredProducts
          /\ n > 3 =>
                /\ Len(list) = CeilSeventyPercent(n)
                /\ \A j \in 1..Len(list) :
                     \E i \in 1..n : monitoredProducts[i] = list[j]
                /\ \A j, k \in 1..Len(list) : list[j] = list[k] => j = k
          /\ cycles[c].i \in 1..Len(list)

(***************************************************************************)
(* The scheduler late in a session: monitoring is on and the session has   *)
(* created MAX_TABS_PER_SESSION - 1 tabs, all closed again (monitoring was *)
(* started, and nine user add-to-cart attempts opened a tab each and       *)
(* failed; startMonitoring's cycle skipped its products).                  *)
(***************************************************************************)
InitTabLimit ==
  /\ monitoredProducts \in StoredProductLists
  /\ isMonitoring = TRUE
  /\ checkoutInProgress = FALSE
  /\ stockStatus = << >>
  /\ consecutiveFailures = 0
  /\ lastCheckTime = 0
  /\ activeTabs = {}
  /\ tabsCreatedThisSession = MAX_TABS_PER_SESSION - 1
  /\ activeChecks = 0
  /\ checkQueue = << >>
  /\ tabOperationInProgress = FALSE
  /\ alarm = DefaultCheckInterval
  /\ alarmListeners = 1
  /\ notificationsGranted \in BOOLEAN
  /\ purchaseCount = 0
  /\ purchaseLimit = DefaultPurchaseLimit
  /\ checkInterval = 0
  /\ openTabs = {}
  /\ nextTabId = 1
  /\ cartListeners = {}
  /\ now = MIN_CHECK_INTERVAL_MS
  /\ ticks = 0
  /\ breakerTimers = {}
  /\ tabTimers = {}
  /\ cycles = [c \in 1..MaxCycles |-> IdleCycle]
  /\ addChecks = {}
  /\ carts = [r \in 1..MaxCarts |-> IdleCart]
  /\ jobs = EmptyBag
  /\ msgs = [control |-> 0, cart |-> 0, unanswered |-> 0]
  /\ trippedAt = 0
  /\ emergencyStopped = FALSE
  /\ page = {}
  /\ checkout = NoCheckout
  /\ clicked = {}
  /\ InitRequestQueue

\* the alarm, the cycles and the requests that start one
TabLimitNext ==
  \/ onMessage_startMonitoring
  \/ onMessage_forceCheck
  \/ alarmListener
  \/ \E c \in 1..MaxCycles : staggerDelayElapsed(c)
  \/ \E c \in 1..MaxCycles : cycleCheckStep(c)
  \/ \E due \in breakerTimers : breakerResetTimer(due)
  \/ \E t \in tabTimers : tabSafetyTimeout(t)
  \/ Tick

SpecTabLimit == InitTabLimit /\ [][TabLimitNext]_vars

\* C16: once tabsCreatedThisSession has reached MAX_TABS_PER_SESSION, and
\* until startMonitoring resets it, no tab is created and no cycle is started
C16_TabLimitStopsTabsAndCycles ==
  [][(/\ tabsCreatedThisSession >= MAX_TABS_PER_SESSION
      /\ tabsCreatedThisSession' >= MAX_TABS_PER_SESSION)
     => (nextTabId' = nextTabId /\ ~CycleStarted)]_vars

(***************************************************************************)
(* Safety-governed revision: user add-to-cart (part_001:2400-2437,         *)
(* 2469-2539, 2665-2683) and the purchase settings (2438-2454)             *)
(***************************************************************************)
cartFrame == << monitoredProducts, isMonitoring, stockStatus, lastCheckTime, alarm, alarmListeners,
                notificationsGranted, scriptVars, rqVars, checkInterval, clockVars, breakerVars,
                cycles, addChecks, queueVars, msgs, emergencyStopped >>

\* the handler sends `response` and its slot is free again
Respond(r, response) ==
  carts' = [carts EXCEPT ![r] = [IdleCart EXCEPT !.response = response]]

\* the addToCart message arrives: chrome.storage.sync.get is issued.  The UI
\* sends a product of its list, with cartUrl when the product has one.
onMessage_addToCart(product, direct) ==
  /\ CartMessage
  /\ \E i \in 1..Len(monitoredProducts) : monitoredProducts[i] = product
  /\ direct => product.addToCartUrl
  /\ FreeCarts # {}
  /\ carts' = [carts EXCEPT ![Min(FreeCarts)] =
                 [IdleCart EXCEPT !.pc = "get", !.url = product.url, !.direct = direct]]
  /\ UNCHANGED << monitoredProducts, isMonitoring, checkoutInProgress, stockStatus,
                  lastCheckTime, tabVars, alarm, alarmListeners, notificationsGranted, scriptVars, rqVars, storeVars,
                  checkInterval, cartListeners, clockVars, breakerVars, cycles,
                  addChecks, queueVars, emergencyStopped >>

\* createSafeTab sees neither the flag set by the handler nor userInitiated
addToCartTarget_call_monitoringRequired(r, count) ==
  IF SafeTabAllowed(isMonitoring, FALSE)
  THEN /\ createSafeTab_call
       /\ carts' = [carts EXCEPT ![r].pc = IF carts[r].direct THEN "directTab" ELSE "autoTab",
                                 ![r].count = count, ![r].tab = nextTabId]
       /\ checkoutInProgress' = TRUE
  ELSE /\ Respond(r, "failed")
       /\ checkoutInProgress' = FALSE
       /\ UNCHANGED tabVars

\* addToCartTarget(product, cartUrl, count, true) up to its first await, called
\* with checkoutInProgress just set: lines 2469-2489 and 2505-2514.  When
\* createSafeTab throws in the direct-URL try, the fallback's createSafeTab
\* throws too and the outer catch returns the failure.
addToCartTarget_call(r, count) ==
  IF SafeTabAllowed(isMonitoring, TRUE)
  THEN /\ createSafeTab_call
       /\ carts' = [carts EXCEPT ![r].pc = IF carts[r].direct THEN "directTab" ELSE "autoTab",
                                 ![r].count = count, ![r].tab = nextTabId]
       /\ checkoutInProgress' = TRUE
  ELSE /\ Respond(r, "failed")
       /\ checkoutInProgress' = FALSE
       /\ UNCHANGED tabVars

\* the limit test admits a request when the count equals the limit
addToCart_gotPurchaseStats_countEqualsLimitAdmitted(r) ==
  /\ carts[r].pc = "get"
  /\ LET count == purchaseCount
         limit == OrDefault(purchaseLimit, DefaultPurchaseLimit)
     IN  IF count > limit
         THEN /\ Respond(r, "limitReached")
              /\ UNCHANGED << checkoutInProgress, tabVars >>
         ELSE IF isTarget(carts[r].url)
         THEN addToCartTarget_call(r, count)
         ELSE /\ Respond(r, "failed")
              /\ checkoutInProgress' = FALSE
              /\ UNCHANGED tabVars
  /\ UNCHANGED << storeVars, cartListeners >>
  /\ UNCHANGED cartFrame

\* the callback of chrome.storage.sync.get in the addToCart handler: 2406-2433
addToCart_gotPurchaseStats(r) ==
  /\ carts[r].pc = "get"
  /\ LET count == purchaseCount
         limit == OrDefault(purchaseLimit, DefaultPurchaseLimit)
     IN  IF count >= limit
         THEN /\ Respond(r, "limitReached")
              /\ UNCHANGED << checkoutInProgress, tabVars >>
         ELSE IF isTarget(carts[r].url)
         THEN addToCartTarget_call(r, count)
         ELSE \* addToCartBestBuy / addToCartGeneric: not_implemented; the
              \* finally block clears the flag
              /\ Respond(r, "failed")
              /\ checkoutInProgress' = FALSE
              /\ UNCHANGED tabVars
  /\ UNCHANGED << storeVars, cartListeners >>
  /\ UNCHANGED cartFrame

\* the direct add-to-cart tab exists: the cartListener is registered and the
\* handler reports success: lines 2489-2499, 2428-2433
addToCartTarget_directTabCreated(r) ==
  /\ carts[r].pc = "directTab"
  /\ createSafeTab_resume(carts[r].tab)
  /\ cartListeners' = cartListeners \cup {[tab |-> carts[r].tab, count |-> carts[r].count]}
  /\ Respond(r, "success")
  /\ checkoutInProgress' = FALSE
  /\ UNCHANGED storeVars
  /\ UNCHANGED cartFrame

\* the product-page tab exists: the 3 s wait starts, lines 2514-2517
addToCartTarget_autoTabCreated(r) ==
  /\ carts[r].pc = "autoTab"
  /\ createSafeTab_resume(carts[r].tab)
  /\ carts' = [carts EXCEPT ![r].pc = "autoWait"]
  /\ UNCHANGED << checkoutInProgress, storeVars, cartListeners >>
  /\ UNCHANGED cartFrame

\* the wait is over: executeScript(performTargetAddToCart), lines 2520-2524;
\* it rejects when the tab is gone (outer catch, finally)
addToCartTarget_waited(r) ==
  /\ carts[r].pc = "autoWait"
  /\ IF carts[r].tab \in openTabs
     THEN /\ carts' = [carts EXCEPT ![r].pc = "script"]
          /\ UNCHANGED checkoutInProgress
     ELSE /\ Respond(r, "failed")
          /\ checkoutInProgress' = FALSE
  /\ UNCHANGED << tabVars, storeVars, cartListeners >>
  /\ UNCHANGED cartFrame

\* the handler's finally block is left out when the script fails
addToCartTarget_scriptDone_flagKeptOnFailure(r, success) ==
  /\ carts[r].pc = "script"
  /\ IF success /\ carts[r].tab \in openTabs
     THEN /\ purchaseCount' = carts[r].count + 1
          /\ Respond(r, "success")
          /\ checkoutInProgress' = FALSE
     ELSE /\ UNCHANGED purchaseCount
          /\ Respond(r, "failed")
          /\ UNCHANGED checkoutInProgress
  /\ UNCHANGED << tabVars, purchaseLimit, cartListeners >>
  /\ UNCHANGED cartFrame

\* executeScript settles: lines 2526-2538, 2428-2433
addToCartTarget_scriptDone(r, success) ==
  /\ carts[r].pc = "script"
  /\ IF success /\ carts[r].tab \in openTabs
     THEN /\ purchaseCount' = carts[r].count + 1
          /\ Respond(r, "success")
     ELSE /\ UNCHANGED purchaseCount
          /\ Respond(r, "failed")
  /\ checkoutInProgress' = FALSE
  /\ UNCHANGED << tabVars, purchaseLimit, cartListeners >>
  /\ UNCHANGED cartFrame

\* the direct add-to-cart tab navigates to the cart page: cartListener,
\* lines 2492-2497
cartListener(l) ==
  /\ l \in cartListeners
  /\ l.tab \in openTabs
  /\ purchaseCount' = l.count + 1
  /\ cartListeners' = cartListeners \ {l}
  /\ UNCHANGED << checkoutInProgress, tabVars, purchaseLimit, carts >>
  /\ UNCHANGED cartFrame

onMessage_updatePurchaseLimit(limit) ==
  /\ Message
  /\ purchaseLimit' = limit
  /\ UNCHANGED << monitoredProducts, isMonitoring, checkoutInProgress, stockStatus,
                  lastCheckTime, tabVars, alarm, alarmListeners, notificationsGranted, scriptVars, rqVars, purchaseCount,
                  checkInterval, cartListeners, clockVars, breakerVars, cycles,
                  addChecks, carts, queueVars, emergencyStopped >>

onMessage_resetPurchaseCount ==
  /\ Message
  /\ purchaseCount' = 0
  /\ UNCHANGED << monitoredProducts, isMonitoring, checkoutInProgress, stockStatus,
                  lastCheckTime, tabVars, alarm, alarmListeners, notificationsGranted, scriptVars, rqVars, purchaseLimit,
                  checkInterval, cartListeners, clockVars, breakerVars, cycles,
                  addChecks, carts, queueVars, emergencyStopped >>

CartNext ==
  \/ \E product \in ProductInputs, direct \in BOOLEAN : onMessage_addToCart(product, direct)
  \/ \E r \in 1..MaxCarts : addToCart_gotPurchaseStats(r)
  \/ \E r \in 1..MaxCarts : addToCartTarget_directTabCreated(r)
  \/ \E r \in 1..MaxCarts : addToCartTarget_autoTabCreated(r)
  \/ \E r \in 1..MaxCarts : addToCartTarget_waited(r)
  \/ \E r \in 1..MaxCarts, success \in BOOLEAN : addToCartTarget_scriptDone(r, success)
  \/ \E l \in cartListeners : cartListener(l)
  \/ \E limit \in LimitInputs : onMessage_updatePurchaseLimit(limit)
  \/ onMessage_resetPurchaseCount

\* the purchase path with the controls that act on it: no check cycle runs
InitCart == InitWith(CartProductLists, DefaultCheckInterval)

SpecCart ==
  InitCart /\ [][CartNext \/ onMessage_emergencyStop
                 \/ (\E t \in tabTimers : tabSafetyTimeout(t)) \/ Tick]_vars

\* C17: an addToCart request for a Target product handled while monitoring is
\* off, with purchaseCount below the limit and the session's tab limit not
\* reached, is not refused: the adapter runs and createSafeTab creates its tab
C17_UserAddToCartAllowedWhenNotMonitoring ==
  [][\A r \in 1..MaxCarts :
       (/\ carts[r].pc = "get"
        /\ carts'[r].pc # "get"
        /\ ~isMonitoring
        /\ purchaseCount < OrDefault(purchaseLimit, DefaultPurchaseLimit)
        /\ tabsCreatedThisSession < MAX_TABS_PER_SESSION
        /\ isTarget(carts[r].url))
       => /\ carts'[r].pc \in {"directTab", "autoTab"}
          /\ carts'[r].tab \in openTabs' \ openTabs
          /\ checkoutInProgress']_vars

C17_Witness_TabCreatedWhileNotMonitoring ==
  \E r \in 1..MaxCarts :
    /\ carts[r].pc \in {"directTab", "autoTab"}
    /\ carts[r].tab \in openTabs
    /\ ~isMonitoring
    /\ ~emergencyStopped

(***************************************************************************)
(* Safety-governed revision: the watchdog (part_001:2686-2704)             *)
(***************************************************************************)
\* the watchdog forgets the tracked tabs without closing them
watchdog_forgetsTabs(daily) ==
  /\ IF ~isMonitoring /\ activeTabs # {}
     THEN activeTabs' = {} /\ UNCHANGED openTabs
     ELSE UNCHANGED << activeTabs, openTabs >>
  /\ tabsCreatedThisSession' = IF daily THEN 0 ELSE tabsCreatedThisSession
  /\ UNCHANGED << monitoredProducts, isMonitoring, checkoutInProgress, stockStatus,
                  lastCheckTime, nextTabId, tabTimers, alarm, alarmListeners, notificationsGranted,
                  scriptVars, rqVars, storeVars, checkInterval, cartListeners, clockVars,
                  breakerVars, cycles, addChecks, carts, queueVars, msgs,
                  emergencyStopped >>

\* the callback of the 60 s interval; daily: the clock reads 3:00 to 3:04
watchdog(daily) ==
  /\ IF ~isMonitoring /\ activeTabs # {}
     THEN closeAllMonitoringTabs
     ELSE UNCHANGED << activeTabs, openTabs >>
  /\ tabsCreatedThisSession' = IF daily THEN 0 ELSE tabsCreatedThisSession
  /\ UNCHANGED << monitoredProducts, isMonitoring, checkoutInProgress, stockStatus,
                  lastCheckTime, nextTabId, tabTimers, alarm, alarmListeners, notificationsGranted,
                  scriptVars, rqVars, storeVars, checkInterval, cartListeners, clockVars,
                  breakerVars, cycles, addChecks, carts, queueVars, msgs,
                  emergencyStopped >>

\* the watchdog beside the tabs of the checks and of the user's add-to-cart
\* attempts, late in a session
WatchdogNext ==
  \/ \E daily \in BOOLEAN : watchdog(daily)
  \/ onMessage_startMonitoring
  \/ onMessage_stopMonitoring
  \/ \E c \in 1..MaxCycles : staggerDelayElapsed(c)
  \/ \E c \in 1..MaxCycles : cycleCheckStep(c)
  \/ \E product \in ProductInputs : onMessage_addToCart(product, TRUE)
  \/ \E r \in 1..MaxCarts : addToCart_gotPurchaseStats(r)
  \/ \E r \in 1..MaxCarts : addToCartTarget_directTabCreated(r)

SpecWatchdog == InitTabLimit /\ [][WatchdogNext]_vars

\* C31: with monitoring off and activeTabs not empty, the watchdog's tick
\* closes every tracked tab and empties activeTabs
C31_WatchdogClosesTrackedTabs ==
  (~isMonitoring /\ activeTabs # {}) =>
    \A daily \in BOOLEAN :
      ENABLED (/\ watchdog(daily)
               /\ activeTabs' = {}
               /\ openTabs' \cap activeTabs = {})

\* a tab is tracked and open while monitoring is off
C31_Witness_TrackedTabWhileOff ==
  /\ ~isMonitoring
  /\ activeTabs # {}
  /\ activeTabs \cap openTabs # {}

\* C37: tabsCreatedThisSession never exceeds MAX_TABS_PER_SESSION, whatever
\* createSafeTab calls of checks and add-to-cart requests interleave, and it
\* decreases only to 0, in a startMonitoring request or a watchdog tick
C37_TabCounterBoundedAndReset ==
  [][/\ tabsCreatedThisSession' <= MAX_TABS_PER_SESSION
     /\ tabsCreatedThisSession' < tabsCreatedThisSession =>
          /\ tabsCreatedThisSession' = 0
          /\ \/ msgs'.control = msgs.control + 1 /\ isMonitoring'
             \/ /\ UNCHANGED << isMonitoring, cycles, carts, msgs, nextTabId >>
                /\ openTabs' \subseteq openTabs]_vars

\* the counter stands at the limit, a tab of an add-to-cart request having
\* taken the last place, while another request is about to call createSafeTab
C37_Witness_LimitReachedWithCaller ==
  /\ tabsCreatedThisSession = MAX_TABS_PER_SESSION
  /\ \E r, q \in 1..MaxCarts :
       /\ carts[r].pc = "directTab"
       /\ carts[q].pc = "get"

(***************************************************************************)
(* The alarm beside the user's add-to-cart attempts (those with a direct    *)
(* add-to-cart URL), late in a session                                     *)
(***************************************************************************)
GateNext ==
  \/ alarmListener
  \/ \E c \in 1..MaxCycles : staggerDelayElapsed(c)
  \/ \E c \in 1..MaxCycles : cycleCheckStep(c)
  \/ \E due \in breakerTimers : breakerResetTimer(due)
  \/ \E product \in ProductInputs : onMessage_addToCart(product, TRUE)
  \/ \E r \in 1..MaxCarts : addToCart_gotPurchaseStats(r)
  \/ \E r \in 1..MaxCarts : addToCartTarget_directTabCreated(r)
  \/ \E t \in tabTimers : tabSafetyTimeout(t)
  \/ Tick

SpecGate == InitTabLimit /\ [][GateNext]_vars

\* the alarm listener starts a cycle: no message is handled in the step
AlarmStartsCycle == CycleStarted /\ msgs' = msgs

\* C29: an alarm firing starts a cycle only with monitoring on, no checkout
\* in progress, the breaker closed, the tab limit not reached and
\* MIN_CHECK_INTERVAL_MS passed since lastCheckTime, which it sets to the
\* time of the firing; lastCheckTime never decreases
C29_AlarmGate ==
  [][/\ AlarmStartsCycle =>
          /\ isMonitoring
          /\ ~checkoutInProgress
          /\ consecutiveFailures < MAX_FAILURES
          /\ tabsCreatedThisSession < MAX_TABS_PER_SESSION
          /\ now - lastCheckTime >= MIN_CHECK_INTERVAL_MS
          /\ lastCheckTime' = now
     /\ lastCheckTime' >= lastCheckTime]_vars

\* a second cycle started by the alarm runs
C29_Witness_SecondAlarmCycle ==
  \E c \in 1..MaxCycles :
    /\ cycles[c].pc = "delay"
    /\ cycles[c].i = 1
    /\ lastCheckTime = now
    /\ lastCheckTime >= 2 * MIN_CHECK_INTERVAL_MS
    /\ DOMAIN stockStatus # {}

Next == SchedulerNext \/ CartNext

Spec == Init /\ [][Next]_vars

(***************************************************************************)
(* Properties of the purchase path, checked under SpecCart                 *)
(***************************************************************************)
\* the addToCart requests that passed the limit test and have not ended
RunningCarts ==
  {r \in 1..MaxCarts : carts[r].pc \in {"directTab", "autoTab", "autoWait", "script"}}

\* C1: at every moment at most one checkout attempt is executing: while one
\* add-to-cart attempt runs, no second one has got past the handler's entry
\* to its adapter call.
C1_OneCheckoutAtATime == Cardinality(RunningCarts) <= 1

\* C4: the persisted purchaseCount never decreases except through a
\* resetPurchaseCount message: every step that is not the handling of a
\* message leaves it greater than or equal to what it was.
C4_CountNeverDecreases ==
  [][msgs' = msgs => purchaseCount' >= purchaseCount]_vars

\* C10: whenever the addToCart handler gets the purchase settings with
\* purchaseCount >= purchaseLimit, it answers limitReached and ends, and
\* leaves purchaseCount and checkoutInProgress as they were and creates no tab
\* (no add-to-cart adapter runs).
C10_LimitReachedRefused ==
  [][\A r \in 1..MaxCarts :
       (carts[r].pc = "get" /\ carts'[r].pc # "get" /\ purchaseCount >= purchaseLimit)
       => /\ carts'[r] = [IdleCart EXCEPT !.response = "limitReached"]
          /\ purchaseCount' = purchaseCount
          /\ checkoutInProgress' = checkoutInProgress
          /\ UNCHANGED << tabVars, cartListeners >>]_vars

\* C10 witness: a request was refused because the limit was reached
C10_Witness_Refused ==
  \E r \in 1..MaxCarts : carts[r].response = "limitReached" /\ purchaseCount >= purchaseLimit

\* an addToCart request ends without success: limit reached, or failed
AttemptFails(r) ==
  /\ carts[r].pc # "idle"
  /\ carts'[r].pc = "idle"
  /\ carts'[r].response \in {"limitReached", "failed"}

onMessage_startCheckout ==
  /\ msgs.control < MaxMessages
  /\ msgs' = [msgs EXCEPT !.control = @ + 1, !.unanswered = @ + 1]
  /\ UNCHANGED << monitoredProducts, isMonitoring, checkoutInProgress, stockStatus,
                  lastCheckTime, tabVars, alarm, alarmListeners, notificationsGranted,
                  scriptVars, rqVars, storeVars, checkInterval, cartListeners, clockVars,
                  breakerVars, cycles, addChecks, carts, queueVars, emergencyStopped >>

MessagesNext ==
  \/ onMessage_startMonitoring
  \/ onMessage_stopMonitoring
  \/ onMessage_emergencyStop
  \/ onMessage_forceCheck
  \/ \E product \in ProductInputs : onMessage_addProduct(product)
  \/ \E url \in Urls : onMessage_removeProduct(url)
  \/ \E seconds \in IntervalInputs : onMessage_updateCheckInterval(seconds)
  \/ onMessage_startCheckout
  \/ \E c \in 1..MaxCycles : staggerDelayElapsed(c)
  \/ \E c \in 1..MaxCycles : cycleCheckStep(c)
  \/ \E a \in addChecks : addCheckStep(a)

SpecMessages == Init /\ [][MessagesNext]_vars

\* C34: every request the UI sends receives a response: the listener leaves
\* no request without a sendResponse call, made at once or by a continuation
C34_EveryRequestAnswered == msgs.unanswered = 0

\* C35: a startMonitoring request that turns monitoring on again (after
\* stopMonitoring or emergencyStop cleared the alarm, with no
\* updateCheckInterval since) leaves a 'checkStock' alarm in existence
C35_AlarmExistsAfterRestart ==
  [][(msgs'.control = msgs.control + 1 /\ ~isMonitoring /\ isMonitoring')
       => alarm' # 0]_vars

(***************************************************************************)
(* Check-queue revision (part_001:774-1042 and 238-442)                    *)
(***************************************************************************)
\* the variables no action of this revision changes
qFrame == << monitoredProducts, consecutiveFailures, lastCheckTime, tabVars,
             notificationsGranted, scriptVars, rqVars, purchaseLimit, checkInterval, cartListeners,
             clockVars, breakerTimers, trippedAt, addChecks, carts, emergencyStopped >>

RECURSIVE Pick(_, _, _)
\* the entries of list at the positions of K, in order, from position i on
Pick(list, K, i) ==
  IF i > Len(list) THEN << >>
  ELSE (IF i \in K THEN << list[i] >> ELSE << >>) \o Pick(list, K, i + 1)

\* Math.ceil(n * 0.7) distinct entries of the shuffled list, or the array itself
q_getProductsToCheck ==
  IF Len(monitoredProducts) <= 3 THEN {monitoredProducts}
  ELSE LET n == Len(monitoredProducts)
           k == (7 * n + 9) \div 10
           picks == {f \in [1..k -> 1..n] : \A a, b \in 1..k : a # b => f[a] # f[b]}
       IN  {[j \in 1..k |-> monitoredProducts[f[j]]] : f \in picks}

\* no slot is admitted when one more check would exceed the limit
processCheckQueue_full_admitsOneMore(active) == active > MAX_CONCURRENT_CHECKS

\* the second half of processCheckQueue's entry test, line 873
processCheckQueue_full(active) == active >= MAX_CONCURRENT_CHECKS

\* processCheckQueue starts a second check at once when one more product waits
processCheckQueue_startsTwo(queue, active, js) ==
  IF Len(queue) = 0 \/ processCheckQueue_full(active)
  THEN /\ checkQueue' = queue
       /\ activeChecks' = active
       /\ jobs' = js
  ELSE IF Len(queue) = 1 \/ processCheckQueue_full(active + 1)
  THEN /\ BagCardinality(js) < MaxJobs
       /\ checkQueue' = Tail(queue)
       /\ activeChecks' = active + 1
       /\ jobs' = js (+) SetToBag({NewJob(Head(queue))})
  ELSE /\ BagCardinality(js) + 1 < MaxJobs
       /\ checkQueue' = Tail(Tail(queue))
       /\ activeChecks' = active + 2
       /\ jobs' = (js (+) SetToBag({NewJob(queue[1])})) (+) SetToBag({NewJob(queue[2])})

\* processCheckQueue up to its first await, called with the queue, the counter
\* and the calls in flight as its caller left them: lines 871-882
processCheckQueue(queue, active, js) ==
  IF Len(queue) = 0 \/ processCheckQueue_full(active)
  THEN /\ checkQueue' = queue
       /\ activeChecks' = active
       /\ jobs' = js
  ELSE /\ BagCardinality(js) < MaxJobs
       /\ checkQueue' = Tail(queue)
       /\ activeChecks' = active + 1
       /\ jobs' = js (+) SetToBag({NewJob(Head(queue))})

\* checkAllProductsStock: lines 830-868.  manageCookies, when it runs,
\* suspends the call between the reset of the queue and the pushes; the
\* products the random test skips are those outside keep.
q_checkAllProductsStock ==
  IF Len(monitoredProducts) = 0 \/ checkoutInProgress
  THEN UNCHANGED << checkQueue, activeChecks, jobs, cycles >>
  ELSE \E list \in q_getProductsToCheck :
         \/ /\ \E keep \in SUBSET (1..Len(list)) :
                 processCheckQueue(Pick(list, keep, 1), activeChecks, jobs)
            /\ UNCHANGED cycles
         \/ /\ FreeCycles # {}
            /\ checkQueue' = << >>
            /\ cycles' = [cycles EXCEPT ![Min(FreeCycles)] =
                            [IdleCycle EXCEPT !.pc = "cookies", !.list = list]]
            /\ UNCHANGED << activeChecks, jobs >>

\* manageCookies settled: the pushes and processCheckQueue, lines 848-867
q_manageCookiesDone(c) ==
  /\ cycles[c].pc = "cookies"
  /\ \E keep \in SUBSET (1..Len(cycles[c].list)) :
       processCheckQueue(checkQueue \o Pick(cycles[c].list, keep, 1), activeChecks, jobs)
  /\ cycles' = [cycles EXCEPT ![c] = IdleCycle]
  /\ UNCHANGED << isMonitoring, checkoutInProgress, stockStatus, tabOperationInProgress,
                  alarm, alarmListeners, purchaseCount, msgs >>
  /\ UNCHANGED qFrame

\* the alarm listener setupMonitoring registers: lines 822-826
q_alarmListener ==
  /\ alarm # 0
  /\ isMonitoring
  /\ q_checkAllProductsStock
  /\ UNCHANGED << isMonitoring, checkoutInProgress, stockStatus, tabOperationInProgress,
                  alarm, alarmListeners, purchaseCount, msgs >>
  /\ UNCHANGED qFrame

\* the call j goes on as call k
Becomes(j, k) == jobs' = (jobs (-) SetToBag({j})) (+) SetToBag({k})

\* the finally block of processCheckQueue, run by the call j: lines 910-926
JobFinally(j) ==
  processCheckQueue(checkQueue, activeChecks - 1, jobs (-) SetToBag({j}))

\* the stagger delay is over: checkProductStock -> createAndUseTab, 882-886
\* and 957-975
q_staggerDelayElapsed(j) ==
  /\ j.pc = "delay"
  /\ IF tabOperationInProgress
     THEN /\ Becomes(j, [j EXCEPT !.pc = "lockWait"])
          /\ UNCHANGED tabOperationInProgress
     ELSE /\ Becomes(j, [j EXCEPT !.pc = "tab"])
          /\ tabOperationInProgress' = TRUE
  /\ UNCHANGED << isMonitoring, checkoutInProgress, stockStatus, activeChecks, checkQueue,
                  alarm, alarmListeners, purchaseCount, cycles, msgs >>
  /\ UNCHANGED qFrame

\* the poll does not look at the lock
q_lockPoll_ignoresLock(j) ==
  /\ j.pc = "lockWait"
  /\ tabOperationInProgress' = TRUE
  /\ Becomes(j, [j EXCEPT !.pc = "tab"])
  /\ UNCHANGED << isMonitoring, checkoutInProgress, stockStatus, activeChecks, checkQueue,
                  alarm, alarmListeners, purchaseCount, cycles, msgs >>
  /\ UNCHANGED qFrame

\* the 500 ms poll of createAndUseTab finds the lock free: lines 959-970
q_lockPoll(j) ==
  /\ j.pc = "lockWait"
  /\ ~tabOperationInProgress
  /\ tabOperationInProgress' = TRUE
  /\ Becomes(j, [j EXCEPT !.pc = "tab"])
  /\ UNCHANGED << isMonitoring, checkoutInProgress, stockStatus, activeChecks, checkQueue,
                  alarm, alarmListeners, purchaseCount, cycles, msgs >>
  /\ UNCHANGED qFrame

\* createAndUseTab removed its tab and released the lock; checkTargetStock
\* returns inStock and processCheckQueue handles it: lines 997-1009, 886-907
q_checkCompleted(j, inStock) ==
  /\ j.pc = "tab"
  /\ tabOperationInProgress' = FALSE
  /\ LET product == j.product
         transition == inStock /\ WasNotInStock(product.url)
     IN  /\ stockStatus' = PutRecord(product.url, CycleRecord(product, inStock))
         /\ IF transition /\ notificationsGranted /\ product.autoCheckout
            THEN /\ checkoutInProgress' = TRUE
                 /\ Becomes(j, [j EXCEPT !.pc = "limitGet",
                                          !.busy = checkoutInProgress])
                 /\ UNCHANGED << activeChecks, checkQueue >>
            ELSE \* no transition, no autoCheckout, or notifyStockAvailable threw
                 /\ JobFinally(j)
                 /\ UNCHANGED checkoutInProgress
  /\ UNCHANGED << isMonitoring, alarm, alarmListeners, purchaseCount, cycles, msgs >>
  /\ UNCHANGED qFrame

\* attemptCheckout got the purchase settings: the limit test and the entry of
\* addToCartTarget, lines 269-281 and 364-376
q_attemptCheckout_gotPurchaseStats(j) ==
  /\ j.pc = "limitGet"
  /\ LET count == purchaseCount
         limit == OrDefault(purchaseLimit, DefaultPurchaseLimit)
     IN  IF count >= limit \/ tabOperationInProgress
         THEN \* attemptCheckout returns false: lines 905, 910-926
              /\ checkoutInProgress' = FALSE
              /\ JobFinally(j)
              /\ UNCHANGED tabOperationInProgress
         ELSE /\ tabOperationInProgress' = TRUE
              /\ Becomes(j, [j EXCEPT !.pc = "cart", !.count = count])
              /\ UNCHANGED << checkoutInProgress, activeChecks, checkQueue >>
  /\ UNCHANGED << isMonitoring, stockStatus, alarm, alarmListeners, purchaseCount, cycles, msgs >>
  /\ UNCHANGED qFrame

\* addToCartTarget settled (the cart page was reached, or the add-to-cart
\* script ran): lines 376-441 and 284-286
q_addToCartTargetDone(j, success) ==
  /\ j.pc = "cart"
  /\ tabOperationInProgress' = FALSE
  /\ IF success
     THEN /\ Becomes(j, [j EXCEPT !.pc = "checkoutScript"])
          /\ UNCHANGED << checkoutInProgress, activeChecks, checkQueue >>
     ELSE /\ checkoutInProgress' = FALSE
          /\ JobFinally(j)
  /\ UNCHANGED << isMonitoring, stockStatus, alarm, alarmListeners, purchaseCount, cycles, msgs >>
  /\ UNCHANGED qFrame

\* the checkout script settled: lines 313-353, 905, 910-926
q_checkoutScriptDone(j, success) ==
  /\ j.pc = "checkoutScript"
  /\ purchaseCount' = IF success THEN j.count + 1 ELSE purchaseCount
  /\ checkoutInProgress' = FALSE
  /\ JobFinally(j)
  /\ UNCHANGED << isMonitoring, stockStatus, tabOperationInProgress, alarm, alarmListeners, cycles, msgs >>
  /\ UNCHANGED qFrame

\* the message handlers of this revision are not among the sources: start and
\* stop as the specification describes them (monitoring enabled; monitoring
\* disabled and the periodic timer cancelled)
q_onMessage_startMonitoring ==
  /\ Message
  /\ isMonitoring' = TRUE
  /\ alarm' = OrDefault(checkInterval, q_DefaultCheckInterval)
  /\ UNCHANGED alarmListeners
  /\ UNCHANGED << checkoutInProgress, stockStatus, queueVars, purchaseCount, cycles >>
  /\ UNCHANGED qFrame

q_onMessage_stopMonitoring ==
  /\ Message
  /\ isMonitoring' = FALSE
  /\ alarm' = 0
  /\ UNCHANGED alarmListeners
  /\ UNCHANGED << checkoutInProgress, stockStatus, queueVars, purchaseCount, cycles >>
  /\ UNCHANGED qFrame

QueueNext ==
  \/ q_alarmListener
  \/ \E c \in 1..MaxCycles : q_manageCookiesDone(c)
  \/ \E j \in BagToSet(jobs) : q_staggerDelayElapsed(j)
  \/ \E j \in BagToSet(jobs) : q_lockPoll(j)
  \/ \E j \in BagToSet(jobs), inStock \in BOOLEAN : q_checkCompleted(j, inStock)
  \/ \E j \in BagToSet(jobs) : q_attemptCheckout_gotPurchaseStats(j)
  \/ \E j \in BagToSet(jobs), success \in BOOLEAN : q_addToCartTargetDone(j, success)
  \/ \E j \in BagToSet(jobs), success \in BOOLEAN : q_checkoutScriptDone(j, success)
  \/ q_onMessage_startMonitoring
  \/ q_onMessage_stopMonitoring

InitQueue == InitWith(QueueProductLists, q_DefaultCheckInterval)

SpecQueue == InitQueue /\ [][QueueNext]_vars

\* C27: the job that waits at the head of checkQueue stays there until
\* processCheckQueue takes it and its call starts; no step drops it
C27_WaitingJobNeverDropped ==
  [][checkQueue # << >> =>
       \/ (checkQueue' # << >> /\ Head(checkQueue') = Head(checkQueue))
       \/ CopiesIn(NewJob(Head(checkQueue)), jobs')
             > CopiesIn(NewJob(Head(checkQueue)), jobs)]_vars

(***************************************************************************)
(* Properties of the check queue, checked under SpecQueue                  *)
(***************************************************************************)
\* C5: the number of stock checks in flight, activeChecks, is always between
\* 0 and MAX_CONCURRENT_CHECKS, and it counts the processCheckQueue calls
\* between their shift and their finally block.
C5_ActiveChecksBounded ==
  /\ activeChecks \in 0..MAX_CONCURRENT_CHECKS
  /\ activeChecks = BagCardinality(jobs)

\* C5 witness: overlapping cycles have filled every slot while a job waits
C5_Witness_AllSlotsBusy ==
  activeChecks = MAX_CONCURRENT_CHECKS /\ Len(checkQueue) > 0

\* C7: the scheduler makes an add-to-cart adapter call for a product only if
\* no other checkout was in progress when the check before it completed (of
\* the conditions the claim lists, the last one).
C7_AutoCheckoutOnlyWhenNoneInProgress ==
  [][\A j \in BagToSet(jobs') :
       (j.pc = "cart" /\ CopiesIn(j, jobs') > CopiesIn(j, jobs)) => ~j.busy]_vars

\* the calls between setting and clearing tabOperationInProgress: a
\* createAndUseTab body (pc "tab") or an addToCartTarget body (pc "cart")
TabOperations == {j \in BagToSet(jobs) : j.pc \in {"tab", "cart"}}

\* C40: at most one tab operation is between setting and clearing
\* tabOperationInProgress, and the flag is set exactly while that operation
\* runs: no other call clears it
C40_OneTabOperationHoldsFlag ==
  /\ Cardinality(TabOperations) <= 1
  /\ \A j \in TabOperations : CopiesIn(j, jobs) = 1
  /\ tabOperationInProgress <=> TabOperations # {}

\* an add-to-cart body holds the flag while a check polls for it and another
\* check has not reached createAndUseTab yet
C40_Witness_CartHoldsWhileCheckWaits ==
  /\ \E j \in BagToSet(jobs) : j.pc = "cart"
  /\ \E j \in BagToSet(jobs) : j.pc = "lockWait"

(***************************************************************************)
(* Check-queue revision: cycles that do not overlap.  The alarm fires only *)
(* when the cycle before it has handled all its products.                  *)
(***************************************************************************)
\* no call of checkAllProductsStock or processCheckQueue is suspended and no
\* product waits in checkQueue
NoCycleOutstanding ==
  /\ jobs = EmptyBag
  /\ checkQueue = << >>
  /\ \A c \in 1..MaxCycles : cycles[c].pc = "idle"

q_alarmListener_alone == NoCycleOutstanding /\ q_alarmListener

\* one processCheckQueue call is in flight at a time, so no check finds the tab
\* lock taken and q_lockPoll has nothing to do
LoneCycleNext ==
  \/ q_alarmListener_alone
  \/ \E c \in 1..MaxCycles : q_manageCookiesDone(c)
  \/ \E j \in BagToSet(jobs) : q_staggerDelayElapsed(j)
  \/ \E j \in BagToSet(jobs), inStock \in BOOLEAN : q_checkCompleted(j, inStock)
  \/ \E j \in BagToSet(jobs) : q_attemptCheckout_gotPurchaseStats(j)
  \/ \E j \in BagToSet(jobs), success \in BOOLEAN : q_addToCartTargetDone(j, success)
  \/ \E j \in BagToSet(jobs), success \in BOOLEAN : q_checkoutScriptDone(j, success)
  \/ q_onMessage_startMonitoring
  \/ q_onMessage_stopMonitoring

SpecLoneCycle == InitQueue /\ [][LoneCycleNext]_vars

\* a processCheckQueue call has run its finally block, where it broadcasts
\* stockStatusUpdate: its check is no longer counted (line 912; the call it
\* makes at line 925 may count the next one)
JobEnded ==
  \E j \in BagToSet(jobs) :
    /\ CopiesIn(j, jobs') < CopiesIn(j, jobs)
    /\ \A k \in BagToSet(jobs') :
         CopiesIn(k, jobs') > CopiesIn(k, jobs) => k.pc = "delay"

\* C38: in a cycle with no other cycle beside it one job runs at a time, and
\* the head of checkQueue is taken only in the finally block of the job before
C38_OneJobAtATimeInOrder ==
  [][/\ activeChecks' <= 1
     /\ BagCardinality(jobs') = activeChecks'
     /\ (checkQueue # << >> /\ checkQueue' # checkQueue) =>
          /\ JobEnded
          /\ checkQueue' = Tail(checkQueue)
          /\ jobs' = SetToBag({NewJob(Head(checkQueue))})]_vars

\* the second job of a cycle is in createAndUseTab, the first one having
\* written its record
C38_Witness_SecondJobRuns ==
  /\ activeChecks = 1
  /\ \E j \in BagToSet(jobs) :
       /\ j.pc = "tab"
       /\ j.product = monitoredProducts[2]
       /\ monitoredProducts[1].url \in DOMAIN stockStatus
       /\ j.product.url \notin DOMAIN stockStatus

\* C33: a cycle broadcasts stockStatusUpdate once, after its last product: the
\* call that broadcasts leaves no product of the cycle waiting or in flight
C33_OneBroadcastAfterLastProduct ==
  [][JobEnded => (checkQueue = << >> /\ jobs' = EmptyBag)]_vars

(***************************************************************************)
(* Revision of src/background.js (lines 1600-2992): the user's add-to-cart *)
(* requests and the purchase settings.  This revision has no checkout flag *)
(* on this path and creates its tabs with chrome.tabs.create.              *)
(***************************************************************************)
\* the variables no action of this part changes
bgFrame == << monitoredProducts, isMonitoring, checkoutInProgress, stockStatus,
              lastCheckTime, activeTabs, tabsCreatedThisSession, tabTimers, alarm, alarmListeners,
              notificationsGranted, scriptVars, rqVars, checkInterval, clockVars, breakerVars, cycles,
              addChecks, queueVars, emergencyStopped >>

\* chrome.tabs.create is called: the tab opens
bg_tabsCreate ==
  /\ nextTabId <= MaxTabIds
  /\ openTabs' = openTabs \cup {nextTabId}
  /\ nextTabId' = nextTabId + 1

\* the addToCart message arrives: lines 2948-2953
bg_onMessage_addToCart(product, direct) ==
  /\ CartMessage
  /\ \E i \in 1..Len(monitoredProducts) : monitoredProducts[i] = product
  /\ direct => product.addToCartUrl
  /\ FreeCarts # {}
  /\ carts' = [carts EXCEPT ![Min(FreeCarts)] =
                 [IdleCart EXCEPT !.pc = "get", !.url = product.url, !.direct = direct]]
  /\ UNCHANGED << openTabs, nextTabId, cartListeners, storeVars >>
  /\ UNCHANGED bgFrame

\* the callback of chrome.storage.sync.get: the limit test and addToCartTarget
\* or addToCartBestBuy up to chrome.tabs.create, lines 2954-2970, 2433-2448,
\* 2622-2630 and 2643-2645
bg_addToCart_gotPurchaseStats(r) ==
  /\ carts[r].pc = "get"
  /\ LET count == purchaseCount
         limit == OrDefault(purchaseLimit, DefaultPurchaseLimit)
     IN  IF count >= limit
         THEN /\ Respond(r, "limitReached")
              /\ UNCHANGED << openTabs, nextTabId >>
         ELSE /\ bg_tabsCreate
              /\ carts' = [carts EXCEPT ![r].pc = IF carts[r].direct THEN "directTab"
                                                  ELSE "autoTab",
                                        ![r].count = count, ![r].tab = nextTabId]
  /\ UNCHANGED << cartListeners, storeVars, msgs >>
  /\ UNCHANGED bgFrame

\* the direct add-to-cart tab exists: the cartListener is registered and the
\* handler reports success, lines 2448-2457 and 2630-2640
bg_directTabCreated(r) ==
  /\ carts[r].pc = "directTab"
  /\ cartListeners' = cartListeners \cup {[tab |-> carts[r].tab, count |-> carts[r].count]}
  /\ Respond(r, "success")
  /\ UNCHANGED << openTabs, nextTabId, storeVars, msgs >>
  /\ UNCHANGED bgFrame

\* the product-page tab exists and the 3 s wait is over: executeScript is
\* called, lines 2469-2479 and 2645-2655
bg_pageLoaded(r) ==
  /\ carts[r].pc = "autoTab"
  /\ carts' = [carts EXCEPT ![r].pc = "script"]
  /\ UNCHANGED << openTabs, nextTabId, cartListeners, storeVars, msgs >>
  /\ UNCHANGED bgFrame

\* executeScript settled: lines 2481-2491 and 2657-2665
bg_scriptDone(r, success) ==
  /\ carts[r].pc = "script"
  /\ IF success
     THEN /\ purchaseCount' = carts[r].count + 1
          /\ Respond(r, "success")
     ELSE /\ UNCHANGED purchaseCount
          /\ Respond(r, "failed")
  /\ UNCHANGED << openTabs, nextTabId, cartListeners, purchaseLimit, msgs >>
  /\ UNCHANGED bgFrame

\* the direct add-to-cart tab navigates to the cart page: cartListener, lines
\* 2449-2455 and 2633-2638
bg_cartListener(l) ==
  /\ l \in cartListeners
  /\ l.tab \in openTabs
  /\ purchaseCount' = l.count + 1
  /\ cartListeners' = cartListeners \ {l}
  /\ UNCHANGED << openTabs, nextTabId, purchaseLimit, carts, msgs >>
  /\ UNCHANGED bgFrame

\* lines 2976-2978
bg_onMessage_updatePurchaseLimit(limit) ==
  /\ Message
  /\ purchaseLimit' = limit
  /\ UNCHANGED << openTabs, nextTabId, cartListeners, purchaseCount, carts >>
  /\ UNCHANGED bgFrame

\* lines 2979-2981
bg_onMessage_resetPurchaseCount ==
  /\ Message
  /\ purchaseCount' = 0
  /\ UNCHANGED << openTabs, nextTabId, cartListeners, purchaseLimit, carts >>
  /\ UNCHANGED bgFrame

\* setupMonitoring of this revision: clearAll, then create 'checkStock' with
\* the period it is given (lines 1622-1644)
bg_setupMonitoring(intervalSeconds) ==
  /\ alarm' = intervalSeconds
  \* addListener with a new function object: one more listener
  /\ alarmListeners' = alarmListeners + 1

\* lines 2937-2940
bg_onMessage_updateCheckInterval(seconds) ==
  /\ Message
  /\ bg_setupMonitoring(seconds)
  /\ checkInterval' = seconds
  /\ UNCHANGED << monitoredProducts, isMonitoring, checkoutInProgress, stockStatus,
                  lastCheckTime, tabVars, notificationsGranted, scriptVars, rqVars, storeVars,
                  cartListeners, clockVars, breakerVars, cycles, addChecks, carts,
                  queueVars, emergencyStopped >>

BgNext ==
  \/ \E product \in ProductInputs, direct \in BOOLEAN : bg_onMessage_addToCart(product, direct)
  \/ \E r \in 1..MaxCarts : bg_addToCart_gotPurchaseStats(r)
  \/ \E r \in 1..MaxCarts : bg_directTabCreated(r)
  \/ \E r \in 1..MaxCarts : bg_pageLoaded(r)
  \/ \E r \in 1..MaxCarts, success \in BOOLEAN : bg_scriptDone(r, success)
  \/ \E l \in cartListeners : bg_cartListener(l)
  \/ \E limit \in LimitInputs : bg_onMessage_updatePurchaseLimit(limit)
  \/ bg_onMessage_resetPurchaseCount
  \/ \E seconds \in IntervalInputs : bg_onMessage_updateCheckInterval(seconds)

InitBg == InitWith(CartProductLists, bg_DefaultCheckInterval)

SpecBg == InitBg /\ [][BgNext]_vars

(***************************************************************************)
(* Properties of the purchase counter, checked under SpecBg                *)
(***************************************************************************)
\* a step that confirms an add-to-cart success: a cartListener fires, or the
\* add-to-cart script reports success
SuccessConfirmed ==
  \/ \E l \in cartListeners : l \notin cartListeners'
  \/ \E r \in 1..MaxCarts : /\ carts[r].pc = "script"
                            /\ carts'[r].pc = "idle"
                            /\ carts'[r].response = "success"

\* C2: no write of an add-to-cart path leaves the persisted purchaseCount
\* greater than the persisted purchaseLimit, however the attempts interleave
\* with updatePurchaseLimit and resetPurchaseCount.
C2_CountWithinLimitAfterCartWrite ==
  [][SuccessConfirmed => purchaseCount' <= purchaseLimit']_vars

\* C3: every confirmed add-to-cart success raises the persisted purchaseCount
\* by exactly 1, also when attempts overlap or an earlier attempt's
\* cartListener fires after a later attempt has written.
C3_EachSuccessCountsOnce ==
  [][SuccessConfirmed => purchaseCount' = purchaseCount + 1]_vars

\* C13: whenever an add-to-cart attempt reports success to its caller, the
\* persisted purchaseCount already holds the increment of that attempt: it
\* is the count the attempt read plus 1, and no write of the attempt is
\* still pending in a cartListener.
C13_CountedBeforeSuccessReported ==
  [][\A r \in 1..MaxCarts :
       (carts[r].pc # "idle" /\ carts'[r].pc = "idle" /\ carts'[r].response = "success")
       => /\ purchaseCount' = carts[r].count + 1
          /\ \A l \in cartListeners' : l.tab # carts[r].tab]_vars

\* C36: however often setupMonitoring has run, one listener is registered on
\* chrome.alarms.onAlarm, so a firing of 'checkStock' enters the check cycle
\* at most once
C36_OneAlarmListener == alarmListeners = 1

(***************************************************************************)
(* src/background.js: class RequestQueue (lines 1228-1328).  Requests are  *)
(* numbered in the order of the enqueue calls.                             *)
(***************************************************************************)
rqFrame == << monitoredProducts, isMonitoring, checkoutInProgress, stockStatus,
              lastCheckTime, tabVars, alarm, alarmListeners, notificationsGranted, page, checkout,
              clicked, storeVars, checkInterval, cartListeners, clockVars,
              breakerVars, cycles, addChecks, carts, queueVars, msgs,
              emergencyStopped >>

\* a processQueue call suspended at its delay, or at the fetch of request req
DelayedChain == [pc |-> "delay", req |-> 0]
FetchingChain(req) == [pc |-> "fetch", req |-> req]

\* processQueue up to its first await, called with the queue and the calls in
\* flight as its caller left them: lines 1260-1288
rq_processQueue(queue, chains) ==
  /\ rqQueue' = queue
  /\ IF Len(queue) = 0
     THEN /\ rqProcessing' = FALSE
          /\ rqChains' = chains
     ELSE /\ rqProcessing' = TRUE
          /\ rqChains' = chains (+) SetToBag({DelayedChain})

\* enqueue starts a processQueue call whatever this.processing says
rq_enqueue_alwaysStarts ==
  /\ rqNext <= MaxRequests
  /\ rqNext' = rqNext + 1
  /\ rq_processQueue(Append(rqQueue, rqNext), rqChains)
  /\ UNCHANGED << rqSent, rqSettles >>
  /\ UNCHANGED rqFrame

\* enqueue(url, options): lines 1244-1257
rq_enqueue ==
  /\ rqNext <= MaxRequests
  /\ rqNext' = rqNext + 1
  /\ IF ~rqProcessing
     THEN rq_processQueue(Append(rqQueue, rqNext), rqChains)
     ELSE /\ rqQueue' = Append(rqQueue, rqNext)
          /\ UNCHANGED << rqProcessing, rqChains >>
  /\ UNCHANGED << rqSent, rqSettles >>
  /\ UNCHANGED rqFrame

\* the delay of a processQueue call is over: the request is shifted and its
\* fetch issued, lines 1291-1318; invalid: new URL(request.url) throws, the
\* promise is rejected and the next processQueue call is made, 1322-1327
rq_delayElapsed(ch, invalid) ==
  /\ ch \in BagToSet(rqChains)
  /\ ch.pc = "delay"
  /\ rqQueue # << >>
  /\ LET req == Head(rqQueue)
         others == rqChains (-) SetToBag({ch})
     IN  IF invalid
         THEN /\ rqSettles' = Append(rqSettles, << req, "rejected" >>)
              /\ rq_processQueue(Tail(rqQueue), others)
              /\ UNCHANGED rqSent
         ELSE /\ rqQueue' = Tail(rqQueue)
              /\ rqChains' = others (+) SetToBag({FetchingChain(req)})
              /\ rqSent' = Append(rqSent, req)
              /\ UNCHANGED << rqProcessing, rqSettles >>
  /\ UNCHANGED rqNext
  /\ UNCHANGED rqFrame

\* a rejected fetch ends the processQueue chain
rq_fetchSettled_stopsOnError(ch, ok) ==
  /\ ch \in BagToSet(rqChains)
  /\ ch.pc = "fetch"
  /\ rqSettles' = Append(rqSettles, << ch.req, IF ok THEN "resolved" ELSE "rejected" >>)
  /\ IF ok THEN rq_processQueue(rqQueue, rqChains (-) SetToBag({ch}))
     ELSE /\ rqChains' = rqChains (-) SetToBag({ch})
          /\ UNCHANGED << rqQueue, rqProcessing >>
  /\ UNCHANGED << rqNext, rqSent >>
  /\ UNCHANGED rqFrame

\* the fetch settles: resolve or reject, then processQueue(): lines 1315-1327
rq_fetchSettled(ch, ok) ==
  /\ ch \in BagToSet(rqChains)
  /\ ch.pc = "fetch"
  /\ rqSettles' = Append(rqSettles, << ch.req, IF ok THEN "resolved" ELSE "rejected" >>)
  /\ rq_processQueue(rqQueue, rqChains (-) SetToBag({ch}))
  /\ UNCHANGED << rqNext, rqSent >>
  /\ UNCHANGED rqFrame

RequestQueueNext ==
  \/ rq_enqueue
  \/ \E ch \in BagToSet(rqChains), invalid \in BOOLEAN : rq_delayElapsed(ch, invalid)
  \/ \E ch \in BagToSet(rqChains), ok \in BOOLEAN : rq_fetchSettled(ch, ok)

SpecRequestQueue == InitBg /\ [][RequestQueueNext]_vars

\* C32: at most one processQueue chain is active, so at most one fetch is in
\* flight, and the requests are fetched in the order they were enqueued
C32_OneAtATimeInOrder ==
  /\ BagCardinality(rqChains) <= 1
  /\ \A i, j \in 1..Len(rqSent) : i < j => rqSent[i] < rqSent[j]
  /\ \A i, j \in 1..Len(rqQueue) : i < j => rqQueue[i] < rqQueue[j]
  /\ \A i \in 1..Len(rqSent), j \in 1..Len(rqQueue) : rqSent[i] < rqQueue[j]

\* a fetch is in flight, not the first, while a later request waits
C32_Witness_FetchWhileOthersWait ==
  /\ \E ch \in BagToSet(rqChains) : ch.pc = "fetch"
  /\ Len(rqSent) >= 2
  /\ rqQueue # << >>

\* the settlements of request req so far
SettlesOf(req) == {i \in 1..Len(rqSettles) : rqSettles[i][1] = req}

\* C39: no promise of enqueue is settled twice; a chain is active while
\* requests wait, also after a failed request; and once the queue is empty
\* and no call is in flight every request is settled and processing is false
C39_SettledOnceQueueDrains ==
  /\ \A req \in 1..MaxRequests : Cardinality(SettlesOf(req)) <= 1
  /\ rqQueue # << >> => rqChains # EmptyBag
  /\ (rqQueue = << >> /\ rqChains = EmptyBag) =>
       /\ ~rqProcessing
       /\ \A req \in 1..(rqNext - 1) : Cardinality(SettlesOf(req)) = 1

\* the queue has drained after a rejected fetch followed by a resolved one
C39_Witness_DrainedAfterFailure ==
  /\ rqQueue = << >>
  /\ rqChains = EmptyBag
  /\ \E i, j \in 1..Len(rqSettles) :
       /\ i < j
       /\ rqSettles[i][2] = "rejected"
       /\ rqSettles[i][1] \in {rqSent[k] : k \in 1..Len(rqSent)}
       /\ rqSettles[j][2] = "resolved"

(***************************************************************************)
(* Check-queue revision: the checkout scripts attemptCheckout injects into *)
(* the cart tab (part_001:313-327, 1158-1311, 1403-1550, 1553-1700).       *)
(* A control of the page is described by what the scripts' selectors look  *)
(* at: its tag, its data-test (Target) or data-track (Best Buy) attribute, *)
(* a class, its text (or value) in lower case, and whether its href        *)
(* contains "checkout".  The page holds the visible, enabled controls.     *)
(* querySelectorAll throws a SyntaxError for a selector with :contains(),  *)
(* which is not a CSS selector: the script's catch block then resolves     *)
(* with success false.                                                     *)
(***************************************************************************)
Retailers == {"target", "bestbuy", "generic"}

Texts == {"checkout", "place order", "other"}

ControlsOf(retailer) ==
  CASE retailer = "target" ->
         [tag : {"button"},
          data : {"", "checkout-button", "guestCheckoutButton",
                  "fulfillmentContinueButton", "placeOrderButton"},
          class : {"", "styles__BaseButton-sc-1f2lsll-0"},
          text : Texts, href : {FALSE}]
    [] retailer = "bestbuy" ->
         [tag : {"button"},
          data : {"", "Checkout - Top", "Continue as Guest",
                  "Shipping - Continue to Payment Information",
                  "Continue to Payment Information", "Place your Order"},
          class : {"", "checkout-buttons__checkout", "button__fast-track",
                   "button__place-order"},
          text : {"other"}, href : {FALSE}]
         \cup [tag : {"a"}, data : {""}, class : {"btn-secondary", "guest-button"},
               text : {"other"}, href : BOOLEAN]
    [] OTHER ->
         [tag : {"a"}, data : {""}, class : {""}, text : Texts, href : BOOLEAN]
         \cup [tag : {"button", "input"}, data : {""},
               class : {"", "checkout", "place-order"}, text : Texts, href : {FALSE}]

\* the documents the script may find: at most MaxControls controls
Pages(retailer) ==
  UNION {{{f[i] : i \in 1..k} : f \in [1..k -> ControlsOf(retailer)]} : k \in 0..MaxControls}

\* the final place-order control, as the scripts' own placeOrderSelectors
\* identify it (lines 1278-1281, 1515-1520, 1664-1670; the valid selectors)
isPlaceOrder(retailer, c) ==
  CASE retailer = "target" -> c.tag = "button" /\ c.data = "placeOrderButton"
    [] retailer = "bestbuy" ->
         c.tag = "button" /\ (c.data = "Place your Order" \/ c.class = "button__place-order")
    [] OTHER -> \/ c.tag = "button" /\ c.class = "place-order"
                \/ c.tag = "input" /\ c.text = "place order"

checkoutFrame == << monitoredProducts, isMonitoring, checkoutInProgress, stockStatus,
                    lastCheckTime, tabVars, alarm, alarmListeners, notificationsGranted, rqVars, storeVars,
                    checkInterval, cartListeners, clockVars, breakerVars, cycles,
                    addChecks, carts, queueVars, msgs, emergencyStopped >>

\* the promise of the script resolves
scriptResolves(result) ==
  /\ checkout' = [checkout EXCEPT !.pc = "done", !.result = result]
  /\ UNCHANGED << page, clicked >>

\* element.click() on the controls of hit, then the wait: the document the
\* script finds afterwards is any document; when the click loads a new
\* document the script is gone and executeScript yields no success
scriptClicks(hit, nextPc) ==
  /\ clicked' = clicked \cup hit
  /\ \/ /\ page' \in Pages(checkout.retailer)
        /\ checkout' = [checkout EXCEPT !.pc = nextPc]
     \/ /\ page' = {}
        /\ checkout' = [checkout EXCEPT !.pc = "done", !.result = "failed"]

\* a selector loop that clicks the first match and breaks: the first of the
\* match sets that is not empty decides; when none of the valid selectors
\* matches, the loop reaches the :contains() selector and throws
clickFirst(matchSets, nextPc) ==
  LET hits == {k \in 1..Len(matchSets) : matchSets[k] # {}} IN
  IF hits = {} THEN scriptResolves("failed")
  ELSE \E c \in matchSets[Min(hits)] : scriptClicks({c}, nextPc)

\* performTargetCheckout: lines 1158-1311
performTargetCheckout ==
  /\ checkout.retailer = "target"
  /\ LET buttons == {c \in page : c.tag = "button"}
         WithData(d) == {c \in buttons : c.data = d}
     IN
     \/ /\ checkout.pc = "checkout"   \* lines 1170-1193
        /\ clickFirst(<< {c \in WithData("checkout-button") : c.text = "checkout"},
                         {c \in buttons : /\ c.class = "styles__BaseButton-sc-1f2lsll-0"
                                          /\ c.text = "checkout"} >>, "guest")
     \/ /\ checkout.pc = "guest"      \* lines 1219-1243
        /\ clickFirst(<< WithData("guestCheckoutButton") >>, "continue")
     \/ /\ checkout.pc = "continue"   \* lines 1251-1275
        /\ clickFirst(<< WithData("fulfillmentContinueButton") >>, "placeOrder")
     \/ /\ checkout.pc = "placeOrder" \* lines 1277-1304: scrollIntoView only
        /\ IF WithData("placeOrderButton") # {}
           THEN scriptResolves("ready") ELSE scriptResolves("failed")
  /\ UNCHANGED checkoutFrame

\* performBestBuyCheckout: lines 1403-1550.  Its continue loop has no break:
\* it clicks every match of each selector, and after the three valid
\* selectors it reaches button:contains("Continue") and throws.
performBestBuyCheckout ==
  /\ checkout.retailer = "bestbuy"
  /\ LET buttons == {c \in page : c.tag = "button"}
         links == {c \in page : c.tag = "a"}
         WithTrack(d) == {c \in buttons : c.data = d}
         WithClass(cl) == {c \in buttons : c.class = cl}
         ClickAll(hit, nextPc) ==
           IF hit = {} THEN /\ checkout' = [checkout EXCEPT !.pc = nextPc]
                            /\ UNCHANGED << page, clicked >>
           ELSE scriptClicks(hit, nextPc)
     IN
     \/ /\ checkout.pc = "checkout"   \* lines 1414-1434
        /\ clickFirst(<< WithClass("checkout-buttons__checkout"),
                         WithTrack("Checkout - Top"),
                         {c \in links : c.class = "btn-secondary" /\ c.href} >>, "guest")
     \/ /\ checkout.pc = "guest"      \* lines 1459-1481
        /\ clickFirst(<< WithTrack("Continue as Guest"),
                         {c \in links : c.class = "guest-button"} >>, "continue1")
     \/ /\ checkout.pc = "continue1"  \* lines 1491-1512, first selector
        /\ ClickAll(WithClass("button__fast-track"), "continue2")
     \/ /\ checkout.pc = "continue2"
        /\ ClickAll(WithTrack("Shipping - Continue to Payment Information"), "continue3")
     \/ /\ checkout.pc = "continue3"
        /\ ClickAll(WithTrack("Continue to Payment Information"), "continue4")
     \/ /\ checkout.pc = "continue4"  \* button:contains("Continue") throws
        /\ scriptResolves("failed")
  /\ UNCHANGED checkoutFrame

\* performGenericCheckout: lines 1553-1700.  Only 'a[href*="checkout"]' is
\* evaluated before a :contains() selector throws.
performGenericCheckout ==
  /\ checkout.retailer = "generic"
  /\ \/ /\ checkout.pc = "checkout"   \* lines 1559-1581
        /\ clickFirst(<< {c \in page : c.tag = "a" /\ c.href} >>, "guest")
     \/ /\ checkout.pc = "guest"      \* lines 1610-1617: the first selector throws
        /\ scriptResolves("failed")
  /\ UNCHANGED checkoutFrame

CheckoutNext ==
  \/ performTargetCheckout
  \/ performBestBuyCheckout
  \/ performGenericCheckout

\* attemptCheckout has injected the script of the product's retailer into the
\* cart tab (lines 313-327)
InitCheckout ==
  /\ InitGlobals(QueueProductLists, q_DefaultCheckInterval)
  /\ \E r \in Retailers :
       /\ checkout = [retailer |-> r, pc |-> "checkout", result |-> "none"]
       /\ page \in Pages(r)
  /\ clicked = {}
  /\ InitRequestQueue

SpecCheckout == InitCheckout /\ [][CheckoutNext]_vars

\* C12: no step of a checkout script clicks the final place-order control of
\* its retailer.
C12_NeverClicksPlaceOrder ==
  \A c \in clicked : ~isPlaceOrder(checkout.retailer, c)

\* C11: after any sequence of updateCheckInterval requests, the base period
\* of the 'checkStock' alarm (when the alarm exists) and the persisted
\* checkInterval (when set) are at least the 30 s minimum.
C11_IntervalNeverBelowMinimum ==
  /\ alarm = 0 \/ alarm >= MinIntervalSeconds
  /\ checkInterval = 0 \/ checkInterval >= MinIntervalSeconds

====
